---- MODULE Spec2Model ----
(***************************************************************************)
(* Gaze validation pipeline of the Vizard experiment toolbox:              *)
(* SampleRecorder.validateEyeTracker (vexptoolbox/recorder.py), the        *)
(* statistics helpers (stats.py) and the ValidationResult container        *)
(* (vexptoolbox/data.py).                                                  *)
(*                                                                         *)
(* Numbers.  Python floats are modelled as fixed-point integers with Unit  *)
(* steps per 1.0 (an angle of 1 degree is the integer Unit).  Directions   *)
(* are modelled by their (yaw, pitch) angles in degrees; the host library  *)
(* vizmat, which is not part of the repository, is modelled on angles.     *)
(*                                                                         *)
(* Errors.  A Python expression that may raise evaluates to a record       *)
(* [err, val]: err = "" and the value, or the name of the exception.       *)
(***************************************************************************)
EXTENDS Integers, Sequences, FiniteSets, TLC

(* ---------------------------- bounds ---------------------------------- *)
Unit == 100
MaxTargets == 2
MaxKept == 2
SettleFrames == 1
FeedbackFrames == 1
MaxRuns == 2
MaxSignal == 1
MaxStatLen == 3
MaxStatVal == 3

(* ----------------------- program constants ---------------------------- *)
StableSkip == 20
MISSING_VALUE == -99999 * Unit

(* ------------------------- Python helpers ----------------------------- *)
Ok(v) == [err |-> "", val |-> v]
Raise(e) == [err |-> e, val |-> 0]

Abs(v) == IF v < 0 THEN -v ELSE v

RECURSIVE Sum(_)
Sum(x) == IF x = <<>> THEN 0 ELSE Head(x) + Sum(Tail(x))

Map(x, Op(_)) == [i \in 1..Len(x) |-> Op(x[i])]

PyDiv_quiet(a, b) == IF b = 0 THEN Ok(0) ELSE Ok(a \div b)
\* a / b on floats: ZeroDivisionError when b is 0
PyDiv(a, b) == IF b = 0 THEN Raise("ZeroDivisionError") ELSE Ok(a \div b)

\* x[i] for a Python list (0-based, negative indices count from the end)
PyIndex(x, i) ==
    IF i >= 0 /\ i < Len(x) THEN Ok(x[i + 1])
    ELSE IF i < 0 /\ i >= -Len(x) THEN Ok(x[Len(x) + i + 1])
    ELSE Raise("IndexError")

\* math.sqrt on a non-negative fixed-point square: largest r with r*r <= v
RECURSIVE SqrtIter(_, _, _)
SqrtIter(v, lo, hi) ==
    IF lo >= hi THEN lo
    ELSE LET mid == (lo + hi + 1) \div 2
         IN  IF mid * mid <= v THEN SqrtIter(v, mid, hi) ELSE SqrtIter(v, lo, mid - 1)

Sqrt(v) == SqrtIter(v, 0, IF v < 46340 THEN v ELSE 46340)

\* sorted(x)
Sorted(x) == SortSeq(x, LAMBDA a, b : a < b)

(* --------------------------- stats.py --------------------------------- *)
mean(x) == PyDiv(Sum(x), Len(x))

sd(x) ==
    LET xm == mean(x)
    IN  IF xm.err # "" THEN xm
        ELSE LET q == PyDiv(Sum(Map(x, LAMBDA xi : (xi - xm.val) * (xi - xm.val))), Len(x))
             IN  IF q.err # "" THEN q ELSE Ok(Sqrt(q.val))

median(x) ==
    LET xs == Sorted(x)
        m == Len(xs) \div 2
    IN  IF Len(xs) % 2 = 0
        THEN LET a == PyIndex(xs, m)
                 b == PyIndex(xs, m - 1)
             IN  IF a.err # "" THEN a
                 ELSE IF b.err # "" THEN b
                 ELSE Ok((a.val + b.val) \div 2)
        ELSE PyIndex(xs, m)

rmsi(x) ==
    LET dsq == [t \in 1..(IF Len(x) > 0 THEN Len(x) - 1 ELSE 0) |->
                    (x[t + 1] - x[t]) * (x[t + 1] - x[t])]
        q == PyDiv(Sum(dsq), Len(dsq))
    IN  IF q.err # "" THEN q ELSE Ok(Sqrt(q.val))

mad(x) ==
    LET medx == median(x)
    IN  IF medx.err # "" THEN medx
        ELSE median(Map(x, LAMBDA xi : Abs(xi - medx.val)))

(* ------------------- data.py: targets and results --------------------- *)
\* a target is <<x, y, depth>>: degrees, degrees, metres
Deg(n) == n * Unit

VAL_TAR_C == << <<Deg(0), Deg(0), Deg(6)>> >>

VAL_TAR_CR5 == << <<Deg(0), Deg(0), Deg(6)>>, <<Deg(5), Deg(0), Deg(6)>>,
                  <<Deg(0), Deg(-5), Deg(6)>>, <<Deg(-5), Deg(0), Deg(6)>>,
                  <<Deg(0), Deg(5), Deg(6)>> >>

\* the target lists a caller passes: prefixes of the built-in cross
TargetSets == { SubSeq(VAL_TAR_CR5, 1, n) : n \in 1..MaxTargets }

\* ValidationResult._setResults: the aggregate variables of a result
ResultVars ==
    {"acc", "accX", "accY", "sd", "sdX", "sdY", "rmsi", "rmsiX", "rmsiY", "ipd",
     "acc_L", "accX_L", "accY_L", "sd_L", "sdX_L", "sdY_L", "rmsi_L", "rmsiX_L", "rmsiY_L",
     "acc_R", "accX_R", "accY_R", "sd_R", "sdX_R", "sdY_R", "rmsi_R", "rmsiX_R", "rmsiY_R",
     "start_sample", "end_sample"}

setResults_present(result) ==
    [v \in ResultVars \cap DOMAIN result |-> result[v]]
setResults(result) ==
    [v \in ResultVars |-> IF v \in DOMAIN result THEN result[v] ELSE MISSING_VALUE]

\* ValidationResult.__init__
ValidationResult(result, samples, targets, metadata) ==
    [metadata |-> metadata, targets |-> targets, samples |-> samples,
     results |-> setResults(result)]

NoResult == [metadata |-> <<>>, targets |-> <<>>, samples |-> <<>>, results |-> <<>>]

(* ---------------- the eye tracker (input of the model) ---------------- *)
\* tracker.getMatrix(): the gaze signal sig read at frame f
GazeYaw(sig, f) == ((((f * sig) % 3) - 1) * Unit) \div 2
GazePitch(sig, f) == -(((f * sig) % 2) * Unit)
EyeOffset == (32 * Unit) \div 1000
EyePosX(sig, f, eye) ==
    IF eye = "L" THEN -EyeOffset
    ELSE IF eye = "R" THEN EyeOffset + ((f * sig) % 2)
    ELSE 0
EyeYaw(sig, f, eye) ==
    GazeYaw(sig, f) + (IF eye = "L" THEN Unit \div 5 ELSE IF eye = "R" THEN -(Unit \div 5) ELSE 0)

(* --------------- vizmat (host library), on angles --------------------- *)
\* the point where the ray of a target given in degrees meets its depth plane
RayCast(tgt) ==
    << (tgt[3] * tgt[1] * 1745) \div (100000 * Unit),
       (tgt[3] * tgt[2] * 1745) \div (100000 * Unit),
       tgt[3] >>

\* vizmat.VectorToPoint: the direction from an origin to a point, as (yaw, pitch)
\* (a point at the depth of the origin lies at 90 degrees, or straight on)
Sign(x) == IF x > 0 THEN 1 ELSE IF x < 0 THEN -1 ELSE 0
VectorToPoint(ori, pt) ==
    IF pt[3] = ori[3]
    THEN << Sign(pt[1] - ori[1]) * 90 * Unit, -(Sign(pt[2] - ori[2]) * 90 * Unit) >>
    ELSE << ((((pt[1] - ori[1]) * 57296) \div 1000) * Unit) \div (pt[3] - ori[3]),
            -(((((pt[2] - ori[2]) * 57296) \div 1000) * Unit) \div (pt[3] - ori[3])) >>

\* vizmat.AngleBetweenVector
AngleBetweenVector(a, b) ==
    Sqrt((a[1] - b[1]) * (a[1] - b[1]) + (a[2] - b[2]) * (a[2] - b[2]))

\* Transform.makeVecRotVec(a, b).getEuler(): (yaw, pitch) of the rotation a -> b
VecRotEuler(a, b) == << b[1] - a[1], b[2] - a[2] >>

(* ------------------ recorder.py: sample recording --------------------- *)
\* SampleRecorder._record_val_sample: the sample dict of frame f.  rec (the
\* task whose update callback recorded it) and win (the set_no of the target
\* that task was sampling) are history fields, not part of the Python dict.
RecordValSample(sig, f, flag, rec, win) ==
    IF flag
    THEN [frameno |-> f, rec |-> rec, win |-> win,
          tracker_posX |-> EyePosX(sig, f, "C"),
          trackVec_X |-> EyeYaw(sig, f, "C"), trackVec_Y |-> GazePitch(sig, f),
          trackerL_posX |-> EyePosX(sig, f, "L"), trackerR_posX |-> EyePosX(sig, f, "R"),
          trackVecL_X |-> EyeYaw(sig, f, "L"), trackVecL_Y |-> GazePitch(sig, f),
          trackVecR_X |-> EyeYaw(sig, f, "R"), trackVecR_Y |-> GazePitch(sig, f)]
    ELSE [frameno |-> f, rec |-> rec, win |-> win,
          tracker_posX |-> EyePosX(sig, f, "C"),
          trackVec_X |-> EyeYaw(sig, f, "C"), trackVec_Y |-> GazePitch(sig, f)]

\* the fields of a sample as recorded (without what validation adds later)
RawFields(flag) == DOMAIN RecordValSample(0, 0, flag, 0, 0)
Raw(sam, flag) ==
    IF flag
    THEN [frameno |-> sam.frameno, rec |-> sam.rec, win |-> sam.win,
          tracker_posX |-> sam.tracker_posX,
          trackVec_X |-> sam.trackVec_X, trackVec_Y |-> sam.trackVec_Y,
          trackerL_posX |-> sam.trackerL_posX, trackerR_posX |-> sam.trackerR_posX,
          trackVecL_X |-> sam.trackVecL_X, trackVecL_Y |-> sam.trackVecL_Y,
          trackVecR_X |-> sam.trackVecR_X, trackVecR_Y |-> sam.trackVecR_Y]
    ELSE [frameno |-> sam.frameno, rec |-> sam.rec, win |-> sam.win,
          tracker_posX |-> sam.tracker_posX,
          trackVec_X |-> sam.trackVec_X, trackVec_Y |-> sam.trackVec_Y]

(* ----------- validateEyeTracker: per-sample angular errors ------------ *)
\* lines 817-845: combined gaze
AnnotateBoth(sam, tgtHMD) ==
    LET gazeOri == << sam.tracker_posX, 0, 0 >>
        eyeTarVec == VectorToPoint(gazeOri, tgtHMD)
        eyeGazeVec == << sam.trackVec_X, sam.trackVec_Y >>
        angularDiff == VecRotEuler(eyeTarVec, eyeGazeVec)
        eyeHeadRot == VecRotEuler(<<0, 0>>, eyeGazeVec)
    IN  [targetErr |-> AngleBetweenVector(eyeGazeVec, eyeTarVec),
         targetErr_X |-> angularDiff[1], targetErr_Y |-> -angularDiff[2],
         targetGaze_X |-> eyeHeadRot[1], targetGaze_Y |-> -eyeHeadRot[2]]

\* lines 850-886: one eye; the signed components are read from the combined
\* rotation angularDiff (line 865), as the code does.  The keys err, errX,
\* errY, gazeX, gazeY stand for targetErrL, targetErrL_X, ... of the eye.
AnnotateEye(sam, tgtHMD, eye) ==
    LET px == IF eye = "L" THEN sam.trackerL_posX ELSE sam.trackerR_posX
        vx == IF eye = "L" THEN sam.trackVecL_X ELSE sam.trackVecR_X
        vy == IF eye = "L" THEN sam.trackVecL_Y ELSE sam.trackVecR_Y
        gazeOriM == << px, 0, 0 >>
        eyeTarVecM == VectorToPoint(gazeOriM, tgtHMD)
        eyeGazeVecM == << vx, vy >>
        angularDiff == VecRotEuler(VectorToPoint(<< sam.tracker_posX, 0, 0 >>, tgtHMD),
                                   << sam.trackVec_X, sam.trackVec_Y >>)
        eyeHeadRotM == VecRotEuler(<<0, 0>>, eyeGazeVecM)
    IN  [err |-> AngleBetweenVector(eyeGazeVecM, eyeTarVecM),
         errX |-> angularDiff[1], errY |-> -angularDiff[2],
         gazeX |-> eyeHeadRotM[1], gazeY |-> -eyeHeadRotM[2]]

\* the sample dict with the fields validation adds to it
Annotated(sam, b, l, r, flag) ==
    IF flag
    THEN [frameno |-> sam.frameno, rec |-> sam.rec, win |-> sam.win,
          tracker_posX |-> sam.tracker_posX,
          trackVec_X |-> sam.trackVec_X, trackVec_Y |-> sam.trackVec_Y,
          trackerL_posX |-> sam.trackerL_posX, trackerR_posX |-> sam.trackerR_posX,
          trackVecL_X |-> sam.trackVecL_X, trackVecL_Y |-> sam.trackVecL_Y,
          trackVecR_X |-> sam.trackVecR_X, trackVecR_Y |-> sam.trackVecR_Y,
          targetErr |-> b.targetErr,
          targetErr_X |-> b.targetErr_X, targetErr_Y |-> b.targetErr_Y,
          targetGaze_X |-> b.targetGaze_X, targetGaze_Y |-> b.targetGaze_Y,
          targetErrL |-> l.err, targetErrL_X |-> l.errX, targetErrL_Y |-> l.errY,
          targetGazeL_X |-> l.gazeX, targetGazeL_Y |-> l.gazeY,
          targetErrR |-> r.err, targetErrR_X |-> r.errX, targetErrR_Y |-> r.errY,
          targetGazeR_X |-> r.gazeX, targetGazeR_Y |-> r.gazeY]
    ELSE [frameno |-> sam.frameno, rec |-> sam.rec, win |-> sam.win,
          tracker_posX |-> sam.tracker_posX,
          trackVec_X |-> sam.trackVec_X, trackVec_Y |-> sam.trackVec_Y,
          targetErr |-> b.targetErr,
          targetErr_X |-> b.targetErr_X, targetErr_Y |-> b.targetErr_Y,
          targetGaze_X |-> b.targetGaze_X, targetGaze_Y |-> b.targetGaze_Y]

Annotate(sam, tgtHMD, flag) ==
    Annotated(sam, AnnotateBoth(sam, tgtHMD),
              IF flag THEN AnnotateEye(sam, tgtHMD, "L") ELSE <<>>,
              IF flag THEN AnnotateEye(sam, tgtHMD, "R") ELSE <<>>, flag)

SelectStable_all(s) == s
\* line 815: s = s[20:]
SelectStable(s) == SubSeq(s, StableSkip + 1, Len(s))

Col(s, k) == [i \in 1..Len(s) |-> s[i][k]]
AbsCol(s, k) == [i \in 1..Len(s) |-> Abs(s[i][k])]

(* ------------- validateEyeTracker: per-target measures ---------------- *)
\* lines 888-910, in the order of the code
BothOrder ==
    << "avgX", "avgY", "medX", "medY", "offX", "offY", "acc", "accX", "accY",
       "medacc", "medaccX", "medaccY", "sd", "sdX", "sdY", "rmsi", "rmsiX", "rmsiY" >>

BothMeasures(s) ==
    [avgX |-> mean(Col(s, "targetGaze_X")), avgY |-> mean(Col(s, "targetGaze_Y")),
     medX |-> median(Col(s, "targetGaze_X")), medY |-> median(Col(s, "targetGaze_Y")),
     offX |-> mean(Col(s, "targetErr_X")), offY |-> mean(Col(s, "targetErr_Y")),
     acc |-> mean(Col(s, "targetErr")),
     accX |-> mean(AbsCol(s, "targetErr_X")), accY |-> mean(AbsCol(s, "targetErr_Y")),
     medacc |-> median(Col(s, "targetErr")),
     medaccX |-> median(AbsCol(s, "targetErr_X")), medaccY |-> median(AbsCol(s, "targetErr_Y")),
     sd |-> sd(Col(s, "targetErr")),
     sdX |-> sd(Col(s, "targetErr_X")), sdY |-> sd(Col(s, "targetErr_Y")),
     rmsi |-> rmsi(Col(s, "targetErr")),
     rmsiX |-> rmsi(Col(s, "targetErr_X")), rmsiY |-> rmsi(Col(s, "targetErr_Y"))]

\* lines 915-933 for one eye: key acc stands for acc_L or acc_R
EyeMeasures(s, eye) ==
    LET gX == IF eye = "L" THEN "targetGazeL_X" ELSE "targetGazeR_X"
        gY == IF eye = "L" THEN "targetGazeL_Y" ELSE "targetGazeR_Y"
        eC == IF eye = "L" THEN "targetErrL" ELSE "targetErrR"
        eX == IF eye = "L" THEN "targetErrL_X" ELSE "targetErrR_X"
        eY == IF eye = "L" THEN "targetErrL_Y" ELSE "targetErrR_Y"
    IN  [avgX |-> mean(Col(s, gX)), avgY |-> mean(Col(s, gY)),
         medX |-> median(Col(s, gX)), medY |-> median(Col(s, gY)),
         offX |-> mean(Col(s, eX)), offY |-> mean(Col(s, eY)),
         acc |-> mean(Col(s, eC)),
         accX |-> mean(AbsCol(s, eX)), accY |-> mean(AbsCol(s, eY)),
         medacc |-> median(Col(s, eC)),
         medaccX |-> median(AbsCol(s, eX)), medaccY |-> median(AbsCol(s, eY)),
         sd |-> sd(Col(s, eC)), sdX |-> sd(Col(s, eX)), sdY |-> sd(Col(s, eY)),
         rmsi |-> rmsi(Col(s, eC)), rmsiX |-> rmsi(Col(s, eX)), rmsiY |-> rmsi(Col(s, eY))]

\* line 849 and 914: inter-pupillary distance in mm
IpdMeasure(s) ==
    mean([i \in 1..Len(s) |-> Abs(s[i].trackerR_posX - s[i].trackerL_posX) * 1000])

\* the first exception raised by a sequence of evaluations, "" if none
RECURSIVE FirstErr(_)
FirstErr(rs) ==
    IF rs = <<>> THEN ""
    ELSE IF Head(rs).err # "" THEN Head(rs).err
    ELSE FirstErr(Tail(rs))

\* lines 806-811 and 888-910: the keys of d for any tracker
RecordBoth(head, both) ==
    [set_no |-> head.set_no, x |-> head.x, y |-> head.y, d |-> head.d, xm |-> head.xm,
     ym |-> head.ym,
     avgX |-> both.avgX.val, avgY |-> both.avgY.val, medX |-> both.medX.val,
     medY |-> both.medY.val, offX |-> both.offX.val, offY |-> both.offY.val,
     acc |-> both.acc.val, accX |-> both.accX.val, accY |-> both.accY.val,
     medacc |-> both.medacc.val, medaccX |-> both.medaccX.val,
     medaccY |-> both.medaccY.val, sd |-> both.sd.val, sdX |-> both.sdX.val,
     sdY |-> both.sdY.val, rmsi |-> both.rmsi.val, rmsiX |-> both.rmsiX.val,
     rmsiY |-> both.rmsiY.val]

\* lines 806-811 and 888-933: the keys of d with monocular data
RecordMono(head, both, ipd, left, right) ==
    [set_no |-> head.set_no, x |-> head.x, y |-> head.y, d |-> head.d, xm |-> head.xm,
     ym |-> head.ym,
     avgX |-> both.avgX.val, avgY |-> both.avgY.val, medX |-> both.medX.val,
     medY |-> both.medY.val, offX |-> both.offX.val, offY |-> both.offY.val,
     acc |-> both.acc.val, accX |-> both.accX.val, accY |-> both.accY.val,
     medacc |-> both.medacc.val, medaccX |-> both.medaccX.val,
     medaccY |-> both.medaccY.val, sd |-> both.sd.val, sdX |-> both.sdX.val,
     sdY |-> both.sdY.val, rmsi |-> both.rmsi.val, rmsiX |-> both.rmsiX.val,
     rmsiY |-> both.rmsiY.val,
     ipd |-> ipd.val,
     avgX_L |-> left.avgX.val, avgY_L |-> left.avgY.val, medX_L |-> left.medX.val,
     medY_L |-> left.medY.val, offX_L |-> left.offX.val, offY_L |-> left.offY.val,
     acc_L |-> left.acc.val, accX_L |-> left.accX.val, accY_L |-> left.accY.val,
     medacc_L |-> left.medacc.val, medaccX_L |-> left.medaccX.val,
     medaccY_L |-> left.medaccY.val, sd_L |-> left.sd.val, sdX_L |-> left.sdX.val,
     sdY_L |-> left.sdY.val, rmsi_L |-> left.rmsi.val, rmsiX_L |-> left.rmsiX.val,
     rmsiY_L |-> left.rmsiY.val,
     avgX_R |-> right.avgX.val, avgY_R |-> right.avgY.val, medX_R |-> right.medX.val,
     medY_R |-> right.medY.val, offX_R |-> right.offX.val, offY_R |-> right.offY.val,
     acc_R |-> right.acc.val, accX_R |-> right.accX.val, accY_R |-> right.accY.val,
     medacc_R |-> right.medacc.val, medaccX_R |-> right.medaccX.val,
     medaccY_R |-> right.medaccY.val, sd_R |-> right.sd.val, sdX_R |-> right.sdX.val,
     sdY_R |-> right.sdY.val, rmsi_R |-> right.rmsi.val, rmsiX_R |-> right.rmsiX.val,
     rmsiY_R |-> right.rmsiY.val]

\* lines 888-935: the record d from the evaluated measures, and the first
\* exception in the order of the code
Assemble(head, both, ipd, left, right, flag, s) ==
    LET order == Map(BothOrder, LAMBDA k : both[k])
                 \o (IF flag THEN <<ipd>> \o Map(BothOrder, LAMBDA k : left[k])
                                   \o Map(BothOrder, LAMBDA k : right[k])
                     ELSE <<>>)
    IN  [err |-> FirstErr(order),
         d |-> IF flag THEN RecordMono(head, both, ipd, left, right)
               ELSE RecordBoth(head, both),
         s |-> s]

\* the single element of a set; { e(v) : v \in {x} } evaluates x once
Only(S) == CHOOSE v \in S : TRUE

ReduceAnnotated(c, tarpos, tgtHMD, s, flag) ==
    Only({ Assemble([set_no |-> c, x |-> tarpos[1], y |-> tarpos[2], d |-> tarpos[3],
                     xm |-> tgtHMD[1], ym |-> tgtHMD[2]],
                    m[1], m[2], m[3], m[4], flag, s) :
           m \in { << BothMeasures(s),
                      IF flag THEN IpdMeasure(s) ELSE Ok(0),
                      IF flag THEN EyeMeasures(s, "L") ELSE <<>>,
                      IF flag THEN EyeMeasures(s, "R") ELSE <<>> >> } })

\* lines 791-935 for one target: the record d, the retained samples with the
\* error fields added, and the exception that ends the run, if any
ReduceTarget(c, tarpos, tgtHMD, batch, flag) ==
    Only({ ReduceAnnotated(c, tarpos, tgtHMD, s, flag) :
           s \in { Map(SelectStable(batch), LAMBDA sam : Annotate(sam, tgtHMD, flag)) } })

\* lines 944-952: grand average for each measure
GrandAverage(tar_data) ==
    LET vars == UNION { DOMAIN tar_data[i] : i \in 1..Len(tar_data) }
    IN  [var \in vars |-> mean(Col(SelectSeq(tar_data, LAMBDA tar : var \in DOMAIN tar), var)).val]

(* ---------------- data.py: ValidationResult.recomputeMetrics ---------- *)
\* an optional range argument: None, a scalar, or a sequence of values
NoneArg == [kind |-> "none", v |-> <<>>]
Scalar(v) == [kind |-> "scalar", v |-> <<v>>]
Pair(a, b) == [kind |-> "seq", v |-> <<a, b>>]
Triple(a, b, c) == [kind |-> "seq", v |-> <<a, b, c>>]

NormRange_first(r, symmetric, nonneg) ==
    IF r.kind = "none" THEN Ok(r)
    ELSE Ok([kind |-> "seq",
             v |-> IF r.kind = "seq" THEN SubSeq(r.v, 1, 2)
                   ELSE IF symmetric THEN << -r.v[1], r.v[1] >> ELSE << 0, r.v[1] >>])
\* lines 370-389: a range argument as a (min, max) pair; lo is the minimum a
\* scalar stands for (-r for x and y, 0 for depth)
NormRange(r, symmetric, nonneg) ==
    IF r.kind = "none" THEN Ok(r)
    ELSE IF r.kind = "seq" /\ Len(r.v) # 2 THEN Raise("ValueError")
    ELSE LET pair == IF r.kind = "seq" THEN r.v
                     ELSE IF symmetric THEN << -r.v[1], r.v[1] >> ELSE << 0, r.v[1] >>
         IN  IF nonneg /\ (pair[1] < 0 \/ pair[2] < 0) THEN Raise("ValueError")
             ELSE Ok([kind |-> "seq", v |-> pair])

\* sam[start:end] for 0 <= start, 0 <= end
Slice(sam, start, end) ==
    SubSeq(sam, start + 1, IF end < Len(sam) THEN end ELSE Len(sam))

\* lines 399-458 on the window s of one target
RecomputeBoth(s) ==
    [avgX |-> mean(Col(s, "targetGaze_X")), avgY |-> mean(Col(s, "targetGaze_Y")),
     medX |-> median(Col(s, "targetGaze_X")), medY |-> median(Col(s, "targetGaze_Y")),
     offX |-> mean(Col(s, "targetErr_X")), offY |-> mean(Col(s, "targetErr_Y")),
     acc |-> mean(Col(s, "targetErr")),
     accX |-> mean(AbsCol(s, "targetErr_X")), accY |-> mean(AbsCol(s, "targetErr_Y")),
     medacc |-> median(Col(s, "targetErr")),
     medaccX |-> mean(AbsCol(s, "targetErr_X")), medaccY |-> mean(AbsCol(s, "targetErr_Y")),
     sd |-> sd(Col(s, "targetErr")),
     sdX |-> sd(AbsCol(s, "targetErr_X")), sdY |-> sd(AbsCol(s, "targetErr_Y")),
     rmsi |-> rmsi(Col(s, "targetErr")),
     rmsiX |-> rmsi(AbsCol(s, "targetErr_X")), rmsiY |-> rmsi(AbsCol(s, "targetErr_Y"))]

HasMono(sam) == "targetErrL" \in DOMAIN sam /\ "targetErrR" \in DOMAIN sam

\* lines 394-489: the recomputed record of one target, or the exception
RecomputeTarget(tar, s) ==
    IF s = <<>> THEN [err |-> "AttributeError", d |-> tar]
    ELSE LET flag == HasMono(s[1])
             head == [set_no |-> tar.set_no, x |-> tar.x, y |-> tar.y, d |-> tar.d,
                      xm |-> tar.xm, ym |-> tar.ym]
             r == Only({ Assemble(head, m[1], m[2], m[3], m[4], flag, s) :
                         m \in { << RecomputeBoth(s),
                                    IF flag THEN IpdMeasure(s) ELSE Ok(0),
                                    IF flag THEN EyeMeasures(s, "L") ELSE <<>>,
                                    IF flag THEN EyeMeasures(s, "R") ELSE <<>> >> } })
         IN  [err |-> r.err, d |-> r.d]

InRange_all(tar, xr, yr, dr) == TRUE
\* lines 491-497: the target counts for the aggregate
InRange(tar, xr, yr, dr) ==
    /\ xr.kind = "none" \/ ~(tar.x < xr.v[1] \/ tar.x > xr.v[2])
    /\ yr.kind = "none" \/ ~(tar.y < yr.v[1] \/ tar.y > yr.v[2])
    /\ dr.kind = "none" \/ ~(tar.d < dr.v[1] \/ tar.d > dr.v[2])

\* lines 392-501: the loop over zip(targets, samples) from index i on.  end is
\* the current value of end_sample, -1 for None: it is set from the first
\* target that finds it None (line 395) and kept for the targets after it
RECURSIVE RecomputeLoop(_, _, _, _, _, _, _, _, _)
RecomputeLoop(vr, i, start, end, xr, yr, dr, tar_data, included) ==
    IF i > Len(vr.targets) \/ i > Len(vr.samples)
    THEN [err |-> "", tar_data |-> tar_data, included |-> included, end |-> end]
    ELSE LET e == IF end = -1 THEN Len(vr.samples[i]) ELSE end
             r == Only({ x : x \in { RecomputeTarget(vr.targets[i],
                                                     Slice(vr.samples[i], start, e)) } })
         IN  IF r.err # ""
             THEN [err |-> r.err, tar_data |-> tar_data, included |-> included, end |-> e]
             ELSE RecomputeLoop(vr, i + 1, start, e, xr, yr, dr, Append(tar_data, r.d),
                                IF InRange(vr.targets[i], xr, yr, dr)
                                THEN Append(included, r.d) ELSE included)

\* the caller's agg_fun
Aggregate(agg_fun, x) == IF agg_fun = "median" THEN median(x) ELSE mean(x)

\* lines 504-509: the aggregate dict
RecomputeAverage(included, agg_fun, start, end) ==
    LET vars == UNION { DOMAIN included[i] : i \in 1..Len(included) }
    IN  [var \in vars \cup {"start_sample", "end_sample"} |->
            IF var = "start_sample" THEN start
            ELSE IF var = "end_sample" THEN end
            ELSE Aggregate(agg_fun, Col(included, var)).val]

TarCopy_alias(tar, d) == d
\* line 394: d = tar.copy(): what the source's record is after d was written
TarCopy(tar, d) == tar

\* the source object after the loop wrote the records tar_data
SourceAfter(vr, tar_data) ==
    [vr EXCEPT !.targets = [i \in 1..Len(vr.targets) |->
                               IF i <= Len(tar_data) THEN TarCopy(vr.targets[i], tar_data[i])
                               ELSE vr.targets[i]]]

\* lines 346-514: the new result, or the exception the call raises, and the
\* source object after the call
recomputeMetrics(vr, start_sample, end_sample, tar_x_range, tar_y_range, depth_range, agg_fun) ==
    LET xr == NormRange(tar_x_range, TRUE, FALSE)
        yr == NormRange(tar_y_range, TRUE, FALSE)
        dr == NormRange(depth_range, FALSE, TRUE)
    IN  IF xr.err # "" THEN [err |-> xr.err, out |-> NoResult, self |-> vr]
        ELSE IF yr.err # "" THEN [err |-> yr.err, out |-> NoResult, self |-> vr]
        ELSE IF dr.err # "" THEN [err |-> dr.err, out |-> NoResult, self |-> vr]
        ELSE LET loop == Only({ x : x \in { RecomputeLoop(vr, 1, start_sample, end_sample,
                                                          xr.val, yr.val, dr.val, <<>>, <<>>) } })
             IN  IF loop.err # ""
                 THEN [err |-> loop.err, out |-> NoResult,
                       self |-> SourceAfter(vr, loop.tar_data)]
                 ELSE [err |-> "",
                       out |-> ValidationResult(
                                   RecomputeAverage(loop.included, agg_fun,
                                                    start_sample, loop.end),
                                   vr.samples, loop.tar_data, vr.metadata),
                       self |-> SourceAfter(vr, loop.tar_data)]

(* ----------------------------- state ---------------------------------- *)
VARIABLES
    frame,                  \* viz.getFrameNumber()
    sig,                    \* the gaze signal the tracker delivers
    tracker_has_eye_flag,   \* SampleRecorder._tracker_has_eye_flag
    val_samples,            \* SampleRecorder._val_samples
    validation_results,     \* SampleRecorder._validation_results
    nruns,                  \* number of tasks scheduled so far
    task,                   \* the scheduled validateEyeTracker generators: their
                            \* position (pc), their local variables, the index ret
                            \* of the result they returned, and history fields
    recomputed,             \* the last recomputeMetrics call and what it gave
    ipd,                    \* the measureIPD generator: position, wait, result
    stat,                   \* a list of numbers and what a stats function gave for it
    exported,               \* the last toJSON call: its text and what parsing it gave
    exp,                    \* an Experiment object, the last call on it and its error
    pset,                   \* a ParamSet object and the last call on it
    gazecall,               \* the last getCurrentGazeMatrix call and its outcome
    recorder,               \* SampleRecorder: recording flag, sample and event buffers
    tracker,                \* SampleRecorder._tracker and _tracker_type
    dwell,                  \* a waitGazeDwell generator: its dwell times and result
    display,                \* the main window's scene, the headlight, the callback
    replay                  \* a SampleReplay object and its frame callback

vars == << frame, sig, tracker_has_eye_flag, val_samples, validation_results, nruns, task,
           recomputed, ipd, stat, exported, exp, pset, gazecall,
           recorder, tracker, dwell, display, replay >>

\* what the validation procedure never touches
later == << recorder, tracker, dwell, display, replay >>
apart == << exp, pset, gazecall, later >>
offline == << recomputed, ipd, stat, exported, apart >>
backstage == << recomputed, ipd, stat, exported, exp, pset, gazecall,
               recorder, tracker, dwell, replay >>

NoRecompute == [src |-> 0, call |-> <<>>, err |-> "", out |-> NoResult]
NoStat == [x |-> <<>>, fn |-> "", res |-> Ok(0)]
NoExport == [src |-> 0, text |-> <<>>, parsed |-> <<>>]

\* experiment.py lines 27-29
STATE_NEW == 0
STATE_RUNNING == 10
STATE_DONE == 20

\* Experiment.__init__ (lines 40-86) without trials.  py3: the interpreter
\* is Python 3 (setup.py declares both 3 and 2.7).  op, err: the last
\* method called and the error it raised; nops, log (the list positions of
\* the trials started, in order), arg and rep (trial_idx and repeat of the
\* last startTrial, or num_trials of the last addTrials), lp (list_params of
\* an addTrials just made) and loop (the position of a caller's loop and its
\* completed iterations) are history fields.
NoExperiment ==
    [py3 |-> FALSE, trials |-> <<>>, blocks |-> <<>>, state |-> STATE_NEW, cur_trial |-> 0,
     trial_running |-> FALSE, op |-> "", err |-> "", nops |-> 0, log |-> <<>>,
     arg |-> 0, rep |-> FALSE, lp |-> <<>>,
     loop |-> [pc |-> "none", n |-> 0]]

\* ParamSet: none constructed yet.  dict is the instance's __dict__; input
\* (what the constructor was given) and hist (the assignments made since, in
\* order, as << key, value, style >>) are history fields.
NoParamSet == [made |-> FALSE, dict |-> <<>>, err |-> "", input |-> NoneArg, hist |-> <<>>]

\* no getCurrentGazeMatrix call made; eye is the argument of the last call,
\* err the error it raised, ret what it returned to the caller
NoGazeCall == [eye |-> "", err |-> "", ret |-> [kind |-> "none", v |-> <<>>]]
\* prealloc (line 40), scaled down
Prealloc == 2
\* a recorder that has recorded nothing yet (lines 89-97): the sample list is
\* preallocated with None, written here as 0; samples are numbered from 1.
\* History fields: n (samples recorded so far), since (the samples recorded
\* since samples were last cleared), op and err (the last call and the error
\* it raised), idle (when the last trial started the recorder was not
\* recording and its buffers were empty) and mark (n at that moment).
NoRec ==
    [recording |-> FALSE, samples |-> [i \in 1..Prealloc |-> 0], samples_idx |-> 0,
     events |-> <<>>, n |-> 0, since |-> <<>>, op |-> "", err |-> "",
     idle |-> FALSE, mark |-> 0]
\* no eye tracker set (lines 62-65)
\* n, err, arg and rep are history fields: the calls of addEyeTracker, the
\* error of the last one and its arguments
NoTracker == [tracker |-> "None", type |-> "None", n |-> 0, err |-> "", arg |-> "None",
              rep |-> FALSE]
\* an eye tracker with monocular data (line 229)
ViveProEye == [NoTracker EXCEPT !.tracker = "sensor", !.type = "ViveProEyeTracker"]
\* a waitGazeDwell task that was never created; d is the dict d of the
\* task; rested, gaze and n are history fields: how long the gaze has rested
\* on each object without a break, the gaze of the last frame, the frames
NoDwell == [pc |-> "none", dwell |-> 0, d |-> << 0, 0 >>, ret |-> 0,
            rested |-> << 0, 0 >>, gaze |-> 0, n |-> 0]
\* the display: the scene shown in the main window, the head light, the
\* validation sample callbacks registered with vizact.onupdate, and the locals
\* prev_scene and prev_headlight_state of each validation run
MainScene == 1
ValidationScene == 2
NoDisplay == [scene |-> MainScene, headlight |-> FALSE, registered |-> {},
              prev_scene |-> [r \in 1..MaxRuns |-> 0],
              prev_headlight_state |-> [r \in 1..MaxRuns |-> FALSE]]
\* no SampleReplay made.  samples is len(self._samples); player is the
\* vizact.onupdate callback: "None", "enabled" or "disabled"; played, pure,
\* op and n are history fields: the samples replayed since startReplay from
\* the start, whether only pauses and resumes followed that start, the last
\* call and the number of calls and frames
NoReplay == [samples |-> 0, frame |-> 0, player |-> "None", replaying |-> FALSE,
             finished |-> FALSE, ui |-> FALSE, err |-> "", played |-> << >>,
             pure |-> FALSE, op |-> "", n |-> 0]
InitLater ==
    /\ recorder = NoRec /\ tracker = NoTracker /\ dwell = NoDwell
    /\ display = NoDisplay /\ replay = NoReplay

\* a measureIPD generator that was never created; registered and n are
\* history fields: the update callback was registered, samples it recorded
NoIPD == [pc |-> "none", wait |-> 0, need |-> 0, enabled |-> FALSE, ret |-> 0, err |-> "",
          registered |-> FALSE, n |-> 0]

Tasks == 1..MaxRuns

\* frames in one sampling window: waitTime(dur / 1000) at the display rate
Durs == StableSkip..(StableSkip + MaxKept + 1)

Perms_repeat(n) == [1..n -> 1..n]
\* the outcomes of random.sample(all_targets, len(all_targets))
Perms(n) == { p \in [1..n -> 1..n] : \A i, j \in 1..n : p[i] = p[j] => i = j }

\* a generator that was never scheduled
NoTask ==
    [pc |-> "none", targets |-> <<>>, cal_targets |-> <<>>, k |-> 0, wait |-> 0, need |-> 0,
     enabled |-> FALSE, s |-> <<>>, tar_data |-> <<>>, sam_data |-> <<>>,
     ret |-> 0, err |-> "", phases |-> <<>>, windows |-> <<>>, before |-> <<>>,
     metadata |-> NoneArg]

InFlight == { r \in Tasks : task[r].pc \in {"settle", "sampling", "feedback"} }
Due(r) == task[r].wait >= task[r].need

Init ==
    /\ frame = 0
    /\ sig \in 0..MaxSignal
    /\ tracker_has_eye_flag \in BOOLEAN
    /\ val_samples = <<>>
    /\ validation_results = <<>>
    /\ nruns = 0
    /\ task = [r \in Tasks |-> NoTask]
    /\ recomputed = NoRecompute
    /\ ipd = NoIPD
    /\ stat = NoStat
    /\ exported = NoExport
    /\ exp = NoExperiment /\ pset = NoParamSet /\ gazecall = NoGazeCall /\ InitLater

(* ------------------- validateEyeTracker, step by step ------------------ *)
\* lines 716-734: one target is placed.  The code does not look at the depth
\* itself.  The ray of a target runs forward from the origin, so it meets the
\* plane of a depth <= 0 at its starting point or not at all; tar_pos is
\* then the origin or None, and what t.setPosition(None) does is left to the
\* host library: it raises, or the node stays where it was created.
PlaceTarget(tgt) ==
    IF tgt[3] > 0 THEN { Ok(RayCast(tgt)) }
    ELSE { Raise("TypeError"), Ok(<< 0, 0, 0 >>) }

\* lines 711-737: the loop over the targets; one outcome per target
SetupTargets(targets) ==
    { placed \in [1..Len(targets) -> UNION { PlaceTarget(targets[c]) : c \in 1..Len(targets) }] :
          \A c \in 1..Len(targets) : placed[c] \in PlaceTarget(targets[c]) }

\* lines 711-742: the error that ends the setup: one raised while placing a
\* target, or max(t_dists) of no depth at all
SetupError(targets, placed) ==
    IF \E c \in 1..Len(targets) : placed[c].err # ""
    THEN placed[CHOOSE c \in 1..Len(targets) :
                    /\ placed[c].err # ""
                    /\ \A b \in 1..(c - 1) : placed[b].err = ""].err
    ELSE IF targets = <<>> THEN "ValueError"
    ELSE ""

\* lines 747-757: run r switches the main window to the validation scene,
\* turns the head light on and registers its sample callback
SetScene(disp, r) ==
    [disp EXCEPT !.prev_scene[r] = disp.scene, !.scene = ValidationScene,
                 !.prev_headlight_state[r] = disp.headlight, !.headlight = TRUE,
                 !.registered = @ \cup {r}]

RestoreScene_lit(disp, r) ==
    [disp EXCEPT !.registered = @ \ {r}, !.scene = disp.prev_scene[r]]
\* lines 940-958: run r removes its sample callback, turns the head light
\* off if it was off, and returns to the scene it found
RestoreScene(disp, r) ==
    [disp EXCEPT !.registered = @ \ {r},
                 !.headlight = IF ~disp.prev_headlight_state[r] THEN FALSE ELSE @,
                 !.scene = disp.prev_scene[r]]

\* lines 691-773: the generator runs up to the first yield (the settle wait
\* of the first target).  perm is the outcome of random.sample.
StartValidation(targets, randomize, perm, metadata) ==
    \E placed \in SetupTargets(targets) :
    LET r == nruns + 1
        all_targets == [c \in 1..Len(targets) |-> << c - 1, targets[c], placed[c].val >>]
        cal_targets == IF randomize THEN [i \in 1..Len(targets) |-> all_targets[perm[i]]]
                       ELSE all_targets
        err == SetupError(targets, placed)
    IN  /\ nruns < MaxRuns
        /\ nruns' = r
        /\ IF err # ""
           THEN /\ UNCHANGED << val_samples, display >>
                /\ task' = [task EXCEPT ![r] =
                       [NoTask EXCEPT !.pc = "failed", !.targets = targets, !.err = err,
                                      !.phases = << "SETUP" >>,
                                      !.before = validation_results,
                                      !.metadata = metadata]]
           ELSE /\ val_samples' = <<>>
                /\ display' = SetScene(display, r)
                /\ task' = [task EXCEPT ![r] =
                       [NoTask EXCEPT !.pc = "settle", !.targets = targets,
                                      !.cal_targets = cal_targets, !.k = 1,
                                      !.wait = 0, !.need = SettleFrames, !.enabled = FALSE,
                                      !.phases = << "SETUP", "SETTLE" >>,
                                      !.windows = << [first |-> 0, n |-> 0] >>,
                                      !.before = validation_results,
                                      !.metadata = metadata]]
        /\ UNCHANGED << frame, sig, tracker_has_eye_flag, validation_results, backstage >>

\* one display frame: every enabled update callback records a sample into
\* _val_samples (lines 147-205), every waiting generator gets a frame older
Frame ==
    LET rec(r) == RecordValSample(sig, frame + 1, tracker_has_eye_flag, r,
                                  task[r].cal_targets[task[r].k][1])
        new == [r \in Tasks |-> IF task[r].enabled THEN << rec(r) >> ELSE <<>>]
        RECURSIVE cat(_)
        cat(r) == IF r > MaxRuns THEN <<>> ELSE new[r] \o cat(r + 1)
    IN  /\ InFlight # {}
        /\ \A r \in InFlight : ~Due(r)
        /\ frame' = frame + 1
        /\ val_samples' = val_samples \o cat(1)
        /\ task' = [r \in Tasks |->
               IF r \in InFlight
               THEN [task[r] EXCEPT !.wait = @ + 1,
                                    !.windows[task[r].k] =
                                        IF task[r].enabled
                                        THEN [first |-> IF @.n = 0 THEN frame + 1 ELSE @.first,
                                              n |-> @.n + 1]
                                        ELSE @]
               ELSE task[r]]
        /\ UNCHANGED << sig, tracker_has_eye_flag, validation_results, nruns, offline >>

\* lines 774-780: the settle wait is over, sampling starts
BeginSampling(r, dur) ==
    /\ task[r].pc = "settle" /\ Due(r)
    /\ task' = [task EXCEPT ![r].pc = "sampling", ![r].enabled = TRUE,
                            ![r].wait = 0, ![r].need = dur,
                            ![r].phases = Append(@, "SAMPLING")]
    /\ UNCHANGED << frame, sig, tracker_has_eye_flag, val_samples, validation_results, nruns, offline >>

GetValSamples_keep(vs) == [s |-> vs, rest |-> vs]
\* lines 208-212: _get_val_samples returns the list and installs a new one
GetValSamples(vs) == [s |-> vs, rest |-> <<>>]

\* lines 781-784: the sampling wait is over, the batch is taken
EndSampling(r) ==
    LET got == GetValSamples(val_samples)
    IN  /\ task[r].pc = "sampling" /\ Due(r)
        /\ val_samples' = got.rest
        /\ task' = [task EXCEPT ![r].pc = "feedback", ![r].enabled = FALSE,
                                ![r].s = got.s,
                                ![r].wait = 0, ![r].need = FeedbackFrames,
                                ![r].phases = Append(@, "FEEDBACK")]
        /\ UNCHANGED << frame, sig, tracker_has_eye_flag, validation_results, nruns, offline >>

Aborts_never(red) == FALSE
\* an exception raised while reducing a target leaves the generator
Aborts(red) == red.err # ""

MoreTargets_early(k, n) == k < n - 1
\* line 768: the for loop has another target
MoreTargets(k, n) == k < n

Reduced(r) ==
    LET cur == task[r].cal_targets[task[r].k]
    IN  ReduceTarget(cur[1], cur[2], cur[3], task[r].s, tracker_has_eye_flag)

\* lines 786-935 raise: the run ends with the exception; the scene, the head
\* light and the registered callback stay as they are
AbortTarget(r, red) ==
    /\ Aborts(red)
    /\ task' = [task EXCEPT ![r].pc = "failed", ![r].err = red.err]
    /\ UNCHANGED << frame, sig, tracker_has_eye_flag, val_samples, validation_results, nruns, offline >>

\* lines 786-938 and 768-773: the target is reduced, the next one settles
NextTarget(r, red) ==
    /\ ~Aborts(red)
    /\ MoreTargets(task[r].k, Len(task[r].cal_targets))
    /\ task' = [task EXCEPT ![r].pc = "settle", ![r].k = @ + 1,
                            ![r].wait = 0, ![r].need = SettleFrames,
                            ![r].err = red.err,
                            ![r].s = <<>>,
                            ![r].tar_data = Append(@, red.d),
                            ![r].sam_data = Append(@, red.s),
                            ![r].windows = Append(@, [first |-> 0, n |-> 0]),
                            ![r].phases = Append(@, "SETTLE")]
    /\ UNCHANGED << frame, sig, tracker_has_eye_flag, val_samples, validation_results, nruns, offline >>

\* dict.update
Update(d, m) == [k \in DOMAIN d \cup DOMAIN m |-> IF k \in DOMAIN m THEN m[k] ELSE d[k]]

\* time.strftime(..., time.localtime()): the wall clock, read as the frame count
strftime(now) == now

MergeMetadata_defaults(metadata, now) ==
    LET rmeta == [datetime |-> strftime(now), label |-> "validation", version |-> Unit \div 10]
    IN  [rmeta |-> IF metadata.kind = "none" THEN rmeta ELSE Update(metadata.v, rmeta),
         metadata |-> metadata]
\* lines 961-966: the metadata of the result, and the caller's dict afterwards
MergeMetadata(metadata, now) ==
    LET rmeta == [datetime |-> strftime(now), label |-> "validation", version |-> Unit \div 10]
    IN  [rmeta |-> IF metadata.kind = "none" THEN rmeta ELSE Update(rmeta, metadata.v),
         metadata |-> metadata]

RECURSIVE Flatten(_)
Flatten(ss) == IF ss = <<>> THEN <<>> ELSE Head(ss) \o Flatten(Tail(ss))

BuildResult_pooled(tar_data, sam_data, rmeta) ==
    ValidationResult([GrandAverage(tar_data) EXCEPT
                          !.acc = mean(Col(Flatten(sam_data), "targetErr")).val],
                     sam_data, tar_data, rmeta)
BuildResult_reversed(tar_data, sam_data, rmeta) ==
    ValidationResult(GrandAverage(tar_data),
                     [i \in 1..Len(sam_data) |-> sam_data[Len(sam_data) + 1 - i]],
                     tar_data, rmeta)
\* lines 940-974: the result of the run
BuildResult(tar_data, sam_data, rmeta) ==
    ValidationResult(GrandAverage(tar_data), sam_data, tar_data, rmeta)

\* lines 786-974: the last target is reduced, the result is built and stored
FinishValidation(r, red) ==
    /\ ~Aborts(red)
    /\ ~MoreTargets(task[r].k, Len(task[r].cal_targets))
    /\ \E m \in { MergeMetadata(task[r].metadata, frame) } :
       \E rv \in { BuildResult(Append(task[r].tar_data, red.d), Append(task[r].sam_data, red.s),
                                m.rmeta) } :
        /\ validation_results' = Append(validation_results, rv)
        /\ task' = [task EXCEPT ![r].pc = "done",
                                ![r].ret = Len(validation_results) + 1,
                                ![r].err = red.err, ![r].s = <<>>,
                                ![r].tar_data = <<>>, ![r].sam_data = <<>>,
                                ![r].before = <<>>,
                                ![r].metadata = m.metadata,
                                ![r].phases = @ \o << "AGGREGATE", "TEARDOWN" >>]
        /\ display' = RestoreScene(display, r)
    /\ UNCHANGED << frame, sig, tracker_has_eye_flag, val_samples, nruns, backstage >>

\* lines 784-974: the feedback wait is over
EndFeedback(r) ==
    /\ task[r].pc = "feedback" /\ Due(r)
    /\ \E red \in { Reduced(r) } :
        \/ AbortTarget(r, red)
        \/ NextTarget(r, red)
        \/ FinishValidation(r, red)

Schedule ==
    \E targets \in TargetSets, randomize \in BOOLEAN :
        \E perm \in Perms(Len(targets)) :
            /\ InFlight = {}
            /\ StartValidation(targets, randomize, perm, NoneArg)

\* the calls of recomputeMetrics an analysis makes
DefaultCall ==
    [start_sample |-> 0, end_sample |-> -1, tar_x_range |-> NoneArg, tar_y_range |-> NoneArg,
     depth_range |-> NoneArg, agg_fun |-> "mean"]

RecomputeCalls ==
    { DefaultCall,
      [DefaultCall EXCEPT !.start_sample = 1],
      [DefaultCall EXCEPT !.end_sample = 1],
      [DefaultCall EXCEPT !.end_sample = 2],
      [DefaultCall EXCEPT !.start_sample = 1, !.end_sample = 3],
      [DefaultCall EXCEPT !.start_sample = 3],
      [DefaultCall EXCEPT !.agg_fun = "median"],
      [DefaultCall EXCEPT !.tar_x_range = Scalar(Deg(0))],
      [DefaultCall EXCEPT !.tar_x_range = Pair(Deg(1), Deg(5))],
      [DefaultCall EXCEPT !.tar_y_range = Scalar(Deg(5))],
      [DefaultCall EXCEPT !.depth_range = Scalar(Deg(5))],
      [DefaultCall EXCEPT !.depth_range = Scalar(Deg(-1))],
      [DefaultCall EXCEPT !.tar_x_range = Triple(Deg(0), Deg(1), Deg(5))] }

\* the session is over: every validation was scheduled and has ended
SessionOver == nruns = MaxRuns /\ InFlight = {}

\* data.py lines 346-514 on a stored result: the analysis after the session
Recompute(i, call) ==
    /\ SessionOver
    /\ recomputed = NoRecompute
    /\ i \in 1..Len(validation_results)
    /\ \E r \in { recomputeMetrics(validation_results[i], call.start_sample, call.end_sample,
                                    call.tar_x_range, call.tar_y_range, call.depth_range,
                                    call.agg_fun) } :
           /\ recomputed' = [src |-> i, call |-> call, err |-> r.err, out |-> r.out]
           /\ validation_results' = [validation_results EXCEPT ![i] = r.self]
    /\ UNCHANGED << frame, sig, tracker_has_eye_flag, val_samples, nruns, task, ipd, stat,
                    exported, apart >>

Next ==
    \/ Schedule
    \/ Frame
    \/ \E r \in Tasks, dur \in Durs : BeginSampling(r, dur)
    \/ \E r \in Tasks : EndSampling(r)
    \/ \E r \in Tasks : EndFeedback(r)

Spec == Init /\ [][Next]_vars

\* the scenes a script may show when it starts a validation
OtherScene == 3

\* a session that begins with any scene in the main window and the head
\* light on or off
InitDisplay ==
    /\ frame = 0
    /\ sig \in 0..MaxSignal
    /\ tracker_has_eye_flag \in BOOLEAN
    /\ val_samples = <<>>
    /\ validation_results = <<>>
    /\ nruns = 0
    /\ task = [r \in Tasks |-> NoTask]
    /\ recomputed = NoRecompute
    /\ ipd = NoIPD
    /\ stat = NoStat
    /\ exported = NoExport
    /\ exp = NoExperiment /\ pset = NoParamSet /\ gazecall = NoGazeCall
    /\ recorder = NoRec /\ tracker = NoTracker /\ dwell = NoDwell /\ replay = NoReplay
    /\ display \in { [NoDisplay EXCEPT !.scene = scene, !.headlight = headlight] :
                        scene \in { MainScene, OtherScene }, headlight \in BOOLEAN }

SpecDisplay == InitDisplay /\ [][Next]_vars

\* the validations of a session and one analysis of a stored result after it
NextAnalysis ==
    \/ Schedule
    \/ Frame
    \/ \E r \in Tasks, dur \in Durs : BeginSampling(r, dur)
    \/ \E r \in Tasks : EndSampling(r)
    \/ \E r \in Tasks : EndFeedback(r)
    \/ \E i \in 1..MaxRuns, call \in RecomputeCalls : Recompute(i, call)

SpecAnalysis == Init /\ [][NextAnalysis]_vars

(* ------------------- stats.py called on its own ------------------------ *)
StatVals == { v * Unit : v \in (-MaxStatVal)..MaxStatVal }
StatInputs == UNION { [1..n -> StatVals] : n \in 0..MaxStatLen }

InitStats ==
    /\ frame = 0
    /\ sig = 0
    /\ tracker_has_eye_flag = FALSE
    /\ val_samples = <<>>
    /\ validation_results = <<>>
    /\ nruns = 0
    /\ task = [r \in Tasks |-> NoTask]
    /\ recomputed = NoRecompute
    /\ ipd = NoIPD
    /\ exported = NoExport
    /\ exp = NoExperiment /\ pset = NoParamSet /\ gazecall = NoGazeCall /\ InitLater
    /\ stat \in { [x |-> x, fn |-> "", res |-> Ok(0)] : x \in StatInputs }

Called(fn, res) ==
    /\ stat' = [stat EXCEPT !.fn = fn, !.res = res]
    /\ UNCHANGED << frame, sig, tracker_has_eye_flag, val_samples, validation_results, nruns,
                    task, recomputed, ipd, exported, apart >>

CallMean == Called("mean", mean(stat.x))
CallSd == Called("sd", sd(stat.x))
CallMedian == Called("median", median(stat.x))
CallRmsi == Called("rmsi", rmsi(stat.x))
CallMad == Called("mad", mad(stat.x))

NextStats == CallMean \/ CallSd \/ CallMedian \/ CallRmsi \/ CallMad

SpecStats == InitStats /\ [][NextStats]_vars

(* ------- recomputeMetrics: angular error from the raw vectors ---------- *)
\* integer directions of the eye-to-target vector and of the gaze
MaxDir == 1
Dirs == { v \in [1..3 -> (-MaxDir)..MaxDir] : v # << 0, 0, 0 >> }

\* x / y rounded to the nearest value that can be represented
RoundDiv(x, y) == IF x >= 0 THEN (2 * x + y) \div (2 * y) ELSE -((2 * (-x) + y) \div (2 * y))

\* line 430: v / np.linalg.norm(v), each component rounded
Normalize(v) ==
    LET norm == Sqrt((v[1] * v[1] + v[2] * v[2] + v[3] * v[3]) * Unit * Unit)
    IN  [i \in 1..3 |-> RoundDiv(v[i] * Unit * Unit, norm)]

\* np.dot
Dot(a, b) == RoundDiv(a[1] * b[1] + a[2] * b[2] + a[3] * b[3], Unit)

Clip_none(x, lo, hi) == x
\* np.clip
Clip(x, lo, hi) == IF x < lo THEN lo ELSE IF x > hi THEN hi ELSE x

\* arccos of 0 <= x <= 1 in degrees: sqrt(1 - x) times a cubic in x
ArcCosPos(x) ==
    LET s == Sqrt(((Unit - x) * 1000000) \div Unit)
        p == 15707 - (2121 * x) \div Unit + (743 * x * x) \div (Unit * Unit)
                   - (187 * x * x * x) \div (Unit * Unit * Unit)
        rad == (s * p) \div 10000
    IN  ((((rad * 57296) \div 1000) * Unit) \div 1000)

\* np.degrees(np.arccos(x)): not a number outside [-1, 1]
ArcCosDeg(x) ==
    IF x < -Unit \/ x > Unit THEN Raise("nan")
    ELSE IF x >= 0 THEN Ok(ArcCosPos(x))
    ELSE Ok(180 * Unit - ArcCosPos(-x))

\* lines 429-433: the angular error of one sample; tar is tgtHMD - gazeOri
AngularError(tar, vEyeGaze) ==
    ArcCosDeg(Clip(Dot(Normalize(tar), vEyeGaze), -Unit, Unit))

InitAngle ==
    /\ frame = 0
    /\ sig = 0
    /\ tracker_has_eye_flag = FALSE
    /\ val_samples = <<>>
    /\ validation_results = <<>>
    /\ nruns = 0
    /\ task = [r \in Tasks |-> NoTask]
    /\ recomputed = NoRecompute
    /\ ipd = NoIPD
    /\ exported = NoExport
    /\ exp = NoExperiment /\ pset = NoParamSet /\ gazecall = NoGazeCall /\ InitLater
    /\ stat \in { [x |-> << tar, Normalize(gaze) >>, fn |-> "", res |-> Ok(0)] :
                      tar \in Dirs, gaze \in Dirs }

CallAngle == stat.fn = "" /\ Called("angle", AngularError(stat.x[1], stat.x[2]))

NextAngle == CallAngle

SpecAngle == InitAngle /\ [][NextAngle]_vars

(* --------- validation scheduled again while a run is in flight --------- *)
\* lines 116-118: the validate key schedules validateEyeTracker with its
\* default arguments (lines 694-700: the central target; randomize=True),
\* whatever else is running
Hotkey ==
    \E perm \in Perms(Len(VAL_TAR_C)) : StartValidation(VAL_TAR_C, TRUE, perm, NoneArg)

NextConc ==
    \/ Schedule
    \/ Hotkey
    \/ Frame
    \/ \E r \in Tasks, dur \in Durs : BeginSampling(r, dur)
    \/ \E r \in Tasks : EndSampling(r)
    \/ \E r \in Tasks : EndFeedback(r)

SpecConc == Init /\ [][NextConc]_vars

(* ------------------------- measureIPD --------------------------------- *)
\* frames in the sampling wait of measureIPD: waitTime(sample_dur / 1000)
IpdDurs == 0..MaxKept

IPDRejects_never(flag) == FALSE
\* lines 556-558: measureIPD needs monocular gaze data
IPDRejects(flag) == ~flag

\* lines 553-563: the generator runs up to its first yield
StartIPD(dur) ==
    /\ ipd.pc = "none"
    /\ InFlight = {}
    /\ IF IPDRejects(tracker_has_eye_flag)
       THEN /\ ipd' = [ipd EXCEPT !.pc = "failed", !.err = "NotImplementedError"]
            /\ UNCHANGED val_samples
       ELSE /\ ipd' = [ipd EXCEPT !.pc = "sampling", !.enabled = TRUE, !.registered = TRUE,
                                  !.wait = 0, !.need = dur]
            /\ val_samples' = <<>>
    /\ UNCHANGED << frame, sig, tracker_has_eye_flag, validation_results, nruns, task,
                    recomputed, stat, exported, apart >>

\* one display frame while measureIPD waits: its update callback records a
\* sample (lines 147-205)
FrameIPD ==
    /\ ipd.pc = "sampling" /\ ipd.wait < ipd.need
    /\ frame' = frame + 1
    /\ val_samples' = Append(val_samples,
                             RecordValSample(sig, frame + 1, tracker_has_eye_flag, 0, 0))
    /\ ipd' = [ipd EXCEPT !.wait = @ + 1, !.n = @ + 1]
    /\ UNCHANGED << sig, tracker_has_eye_flag, validation_results, nruns, task,
                    recomputed, stat, exported, apart >>

\* lines 568-574: mean distance of the eye origins, in mm
AverageIPD(s) ==
    LET m == mean([i \in 1..Len(s) |-> Abs(s[i].trackerR_posX - s[i].trackerL_posX)])
    IN  IF m.err # "" THEN m ELSE Ok(m.val * 1000)

\* lines 564-575: the wait is over, the samples are taken and averaged
EndIPD ==
    /\ ipd.pc = "sampling" /\ ipd.wait >= ipd.need
    /\ \E got \in { GetValSamples(val_samples) } : \E res \in { AverageIPD(got.s) } :
        /\ val_samples' = got.rest
        /\ ipd' = [ipd EXCEPT !.pc = IF res.err # "" THEN "failed" ELSE "done",
                              !.enabled = FALSE, !.err = res.err, !.ret = res.val]
    /\ UNCHANGED << frame, sig, tracker_has_eye_flag, validation_results, nruns, task,
                    recomputed, stat, exported, apart >>

\* validateEyeTracker is called while no measureIPD is waiting
ScheduleAlone == ipd.pc # "sampling" /\ Schedule

NextIPD ==
    \/ ScheduleAlone
    \/ Frame
    \/ \E r \in Tasks, dur \in Durs : BeginSampling(r, dur)
    \/ \E r \in Tasks : EndSampling(r)
    \/ \E r \in Tasks : EndFeedback(r)
    \/ \E dur \in IpdDurs : StartIPD(dur)
    \/ FrameIPD
    \/ EndIPD

SpecIPD == Init /\ [][NextIPD]_vars

(* ---------------- ValidationResult.toJSON and back -------------------- *)
Dict(d) == [kind |-> "dict", v |-> d]

\* the metadata arguments a caller passes to validateEyeTracker
Metadatas ==
    { NoneArg,
      Dict([subject |-> 7]),
      Dict([subject |-> 7, label |-> "pilot", datetime |-> 0]) }

\* validateEyeTracker called with a metadata argument
ScheduleWith ==
    \E targets \in TargetSets, metadata \in Metadatas :
        /\ InFlight = {}
        /\ StartValidation(targets, FALSE, [i \in 1..Len(targets) |-> i], metadata)

\* the keys whose values are Python ints; every other number is a float
IntKeys == {"set_no", "frameno", "rec", "win", "subject"}
StrKeys == {"label"}

ReprFloat_short(x) ==
    [t |-> "float", neg |-> x < 0, whole |-> Abs(x) \div Unit,
     frac |-> ((Abs(x) % Unit) \div 10) * 10]
\* float.__repr__ as json.dumps writes it: sign, integer digits, decimals
ReprFloat(x) ==
    [t |-> "float", neg |-> x < 0, whole |-> Abs(x) \div Unit, frac |-> Abs(x) % Unit]
\* int.__repr__
ReprInt(n) == [t |-> "int", neg |-> n < 0, whole |-> Abs(n)]

\* json.dumps of a scalar stored under key k
DumpsValue(k, x) ==
    IF k \in StrKeys THEN [t |-> "str", s |-> x]
    ELSE IF k \in IntKeys THEN ReprInt(x)
    ELSE ReprFloat(x)
\* json.dumps of a dict of scalars, of a list of such dicts
DumpsDict(d) == [k \in DOMAIN d |-> DumpsValue(k, d[k])]
DumpsList(l) == [i \in 1..Len(l) |-> DumpsDict(l[i])]

\* self.__dict__ (lines 273-294): the four containers and one attribute for
\* every aggregate variable
ObjectDict(vr) ==
    [k \in {"metadata", "targets", "samples", "_results"} \cup ResultVars |->
        CASE k = "metadata" -> vr.metadata
          [] k = "targets" -> vr.targets
          [] k = "samples" -> vr.samples
          [] k = "_results" -> vr.results
          [] OTHER -> vr.results[k]]

\* toJSON: json.dumps(self.__dict__)
toJSON(vr) ==
    LET d == ObjectDict(vr)
    IN  [k \in DOMAIN d |->
            CASE k = "metadata" -> DumpsDict(d[k])
              [] k = "targets" -> DumpsList(d[k])
              [] k = "samples" -> [i \in 1..Len(d[k]) |-> DumpsList(d[k][i])]
              [] k = "_results" -> DumpsDict(d[k])
              [] OTHER -> DumpsValue(k, d[k])]

\* json.loads of a scalar, of an object of scalars, of an array of objects
LoadsValue(tok) ==
    CASE tok.t = "str" -> tok.s
      [] tok.t = "int" -> IF tok.neg THEN -tok.whole ELSE tok.whole
      [] tok.t = "float" -> IF tok.neg THEN -(tok.whole * Unit + tok.frac)
                            ELSE tok.whole * Unit + tok.frac
LoadsDict(j) == [k \in DOMAIN j |-> LoadsValue(j[k])]
LoadsList(j) == [i \in 1..Len(j) |-> LoadsDict(j[i])]

\* json.loads of the text of toJSON
Loads(text) ==
    [k \in DOMAIN text |->
        CASE k = "metadata" -> LoadsDict(text[k])
          [] k = "targets" -> LoadsList(text[k])
          [] k = "samples" -> [i \in 1..Len(text[k]) |-> LoadsList(text[k][i])]
          [] k = "_results" -> LoadsDict(text[k])
          [] OTHER -> LoadsValue(text[k])]

\* a stored result is serialized after the session and the text parsed
Export(i) ==
    /\ SessionOver
    /\ exported = NoExport
    /\ i \in 1..Len(validation_results)
    /\ \E text \in { toJSON(validation_results[i]) } :
           exported' = [src |-> i, text |-> text, parsed |-> Loads(text)]
    /\ UNCHANGED << frame, sig, tracker_has_eye_flag, val_samples, validation_results, nruns,
                    task, recomputed, ipd, stat, apart >>

NextExport ==
    \/ ScheduleWith
    \/ Frame
    \/ \E r \in Tasks, dur \in Durs : BeginSampling(r, dur)
    \/ \E r \in Tasks : EndSampling(r)
    \/ \E r \in Tasks : EndFeedback(r)
    \/ \E i \in 1..MaxRuns : Export(i)

SpecExport == Init /\ [][NextExport]_vars

(* -------------- validateEyeTracker with any target list ---------------- *)
\* target lists a caller may pass: none, depth 0, negative depth, mixed
TargetSpecs ==
    { << >>,
      << << Deg(0), Deg(0), 0 >> >>,
      << << Deg(0), Deg(0), -Unit >> >>,
      << VAL_TAR_C[1], << Deg(5), Deg(0), 0 >> >>,
      VAL_TAR_C }

ScheduleAny ==
    \E targets \in TargetSpecs :
        /\ InFlight = {}
        /\ StartValidation(targets, FALSE, [i \in 1..Len(targets) |-> i], NoneArg)

NextTargets ==
    \/ ScheduleAny
    \/ Frame
    \/ \E r \in Tasks, dur \in Durs : BeginSampling(r, dur)
    \/ \E r \in Tasks : EndSampling(r)
    \/ \E r \in Tasks : EndFeedback(r)

SpecTargets == Init /\ [][NextTargets]_vars

(* ------------------------- experiment.py ------------------------------- *)
MaxTrials == 3
MaxOps == 4

\* Trial.__init__ (lines 736-763); nstart counts the calls of _start;
\* samples and events are set by endCurrentTrial (lines 555-556)
Trial(params, block) ==
    [state |-> STATE_NEW, index |-> -1, block |-> block, params |-> params, nstart |-> 0,
     samples |-> <<>>, events |-> <<>>]

\* Experiment._updateTrialIndices (lines 399-402)
updateTrialIndices(trials) == [i \in 1..Len(trials) |-> [trials[i] EXCEPT !.index = i - 1]]

\* Experiment._updateBlocks (lines 405-417): the sorted distinct blocks
updateBlocks(trials) ==
    LET seen == { trials[i].block : i \in 1..Len(trials) }
    IN  CHOOSE s \in [1..Cardinality(seen) -> seen] :
            \A i, j \in 1..Cardinality(seen) : i < j => s[i] < s[j]

\* the list position of a Python index that is in range
Pos(e, idx) == IF idx >= 0 THEN idx + 1 ELSE Len(e.trials) + idx + 1

\* a method raised: nothing but the error is recorded
Fail(e, err) == [e EXCEPT !.err = err]

\* Experiment.done, Trial.done, Trial.running (lines 453-456, 809-817)
ExpDone(e) == e.state >= STATE_DONE
TrialDone(tr) == tr.state >= STATE_DONE
TrialRunning(tr) == tr.state = STATE_RUNNING

\* block=None (line 115)
NoBlock == -1

\* one-element dicts for list_params: key -> list of values
ListParamsOk(list_params, num_trials) ==
    \A key \in DOMAIN list_params : Len(list_params[key]) = num_trials

\* Experiment.addTrials (lines 115-142).  dict.iteritems (line 137) exists
\* in Python 2 only.
addTrials(e, num_trials, params, list_params, block) ==
    IF ~ListParamsOk(list_params, num_trials) THEN Fail(e, "ValueError")
    ELSE IF e.py3 /\ num_trials > 0 THEN Fail(e, "AttributeError")
    ELSE LET added == [t \in 1..num_trials |->
                          Trial(Update(params, [key \in DOMAIN list_params |-> list_params[key][t]]),
                                IF block = NoBlock THEN 0 ELSE block)]
             trials == updateTrialIndices(e.trials \o added)
         IN  [e EXCEPT !.trials = trials, !.blocks = updateBlocks(trials), !.err = ""]

startTrial_any(e, trial_idx, repeat) ==
    IF e.trial_running THEN Fail(e, "RuntimeError")
    ELSE IF PyIndex(e.trials, trial_idx).err # "" THEN Fail(e, "IndexError")
    ELSE LET pos == Pos(e, trial_idx)
         IN  [e EXCEPT !.cur_trial = trial_idx,
                       !.state = IF @ < STATE_RUNNING THEN STATE_RUNNING ELSE @,
                       !.trials[pos] = [@ EXCEPT !.index = trial_idx, !.state = STATE_RUNNING,
                                                 !.nstart = @ + 1],
                       !.trial_running = TRUE, !.err = "", !.log = Append(@, pos)]
startTrial_twice(e, trial_idx, repeat) ==
    IF PyIndex(e.trials, trial_idx).err # "" THEN Fail(e, "IndexError")
    ELSE IF TrialDone(e.trials[Pos(e, trial_idx)]) /\ ~repeat THEN Fail(e, "RuntimeError")
    ELSE LET pos == Pos(e, trial_idx)
         IN  [e EXCEPT !.cur_trial = trial_idx,
                       !.state = IF @ < STATE_RUNNING THEN STATE_RUNNING ELSE @,
                       !.trials[pos] = [@ EXCEPT !.index = trial_idx, !.state = STATE_RUNNING,
                                                 !.nstart = @ + 1],
                       !.trial_running = TRUE, !.err = "", !.log = Append(@, pos)]
\* Experiment.startTrial (lines 502-539) and Trial._start (lines 781-786),
\* without a sample recorder
startTrial(e, trial_idx, repeat) ==
    IF e.trial_running THEN Fail(e, "RuntimeError")
    ELSE IF PyIndex(e.trials, trial_idx).err # "" THEN Fail(e, "IndexError")
    ELSE IF TrialDone(e.trials[Pos(e, trial_idx)]) /\ ~repeat THEN Fail(e, "RuntimeError")
    ELSE LET pos == Pos(e, trial_idx)
         IN  [e EXCEPT !.cur_trial = trial_idx,
                       !.state = IF @ < STATE_RUNNING THEN STATE_RUNNING ELSE @,
                       !.trials[pos] = [@ EXCEPT !.index = trial_idx, !.state = STATE_RUNNING,
                                                 !.nstart = @ + 1],
                       !.trial_running = TRUE, !.err = "", !.log = Append(@, pos)]

\* Experiment.startNextTrial (lines 480-499)
startNextTrial(e) ==
    IF e.trial_running THEN Fail(e, "RuntimeError")
    ELSE IF e.cur_trial = 0 /\ PyIndex(e.trials, 0).err # "" THEN Fail(e, "IndexError")
    ELSE IF e.cur_trial = 0 /\ ~TrialDone(e.trials[1]) THEN startTrial(e, 0, FALSE)
    ELSE IF e.cur_trial + 1 >= Len(e.trials) THEN Fail(e, "RuntimeError")
    ELSE startTrial(e, e.cur_trial + 1, FALSE)

endCurrentTrial_quiet(e) ==
    IF ~e.trial_running
    THEN [e EXCEPT !.err = "", !.state = IF e.cur_trial + 1 >= Len(e.trials) THEN STATE_DONE ELSE @]
    ELSE [e EXCEPT !.trials[Pos(e, e.cur_trial)].state = STATE_DONE,
                   !.state = IF e.cur_trial + 1 >= Len(e.trials) THEN STATE_DONE ELSE @,
                   !.trial_running = FALSE, !.err = ""]
endCurrentTrial_open(e) ==
    IF ~e.trial_running THEN Fail(e, "RuntimeError")
    ELSE [e EXCEPT !.trials[Pos(e, e.cur_trial)].state = STATE_DONE,
                   !.trial_running = FALSE, !.err = ""]
\* Experiment.endCurrentTrial (lines 542-575) and Trial._end (lines 789-793),
\* without a sample recorder; saving the trial data to a file is left out
endCurrentTrial(e) ==
    IF ~e.trial_running THEN Fail(e, "RuntimeError")
    ELSE IF PyIndex(e.trials, e.cur_trial).err # "" THEN Fail(e, "IndexError")
    ELSE [e EXCEPT !.trials[Pos(e, e.cur_trial)].state = STATE_DONE,
                   !.state = IF e.cur_trial + 1 >= Len(e.trials) THEN STATE_DONE ELSE @,
                   !.trial_running = FALSE, !.err = ""]

\* Experiment(trial_file=...): an experiment constructed with n trials
NewExperiment(py3, n) ==
    [NoExperiment EXCEPT !.py3 = py3,
                         !.trials = updateTrialIndices([i \in 1..n |-> Trial(<<>>, 0)]),
                         !.blocks = IF n > 0 THEN << 0 >> ELSE <<>>]

InitExperiment ==
    /\ frame = 0
    /\ sig = 0
    /\ tracker_has_eye_flag = FALSE
    /\ val_samples = <<>>
    /\ validation_results = <<>>
    /\ nruns = 0
    /\ task = [r \in Tasks |-> NoTask]
    /\ recomputed = NoRecompute
    /\ ipd = NoIPD
    /\ stat = NoStat
    /\ exported = NoExport
    /\ pset = NoParamSet /\ gazecall = NoGazeCall /\ InitLater
    /\ exp \in { NewExperiment(py3, n) : py3 \in BOOLEAN, n \in 0..(MaxTrials - 1) }

\* a method of the experiment was called and gave e
ExpCalled(op, arg, repeat, e) ==
    /\ exp.nops < MaxOps
    /\ exp' = [e EXCEPT !.op = op, !.nops = exp.nops + 1, !.arg = arg, !.rep = repeat,
                        !.lp = IF op = "addTrials" THEN @ ELSE <<>>]
    /\ UNCHANGED << frame, sig, tracker_has_eye_flag, val_samples, validation_results, nruns,
                    task, recomputed, ipd, stat, exported, pset, gazecall, later >>

\* the arguments of addTrials a script passes
ParamDicts == { << >>, [a |-> 1] }
ListParams == { << >>, [b |-> << 7 >>], [b |-> << 7, 8 >>], [a |-> << 5, 6 >>] }

\* a script adds trials between trials, not while one is in progress
AddTrials(num_trials, params, list_params, block) ==
    /\ ~exp.trial_running
    /\ Len(exp.trials) + num_trials <= MaxTrials
    /\ ExpCalled("addTrials", num_trials, FALSE,
                 [addTrials(exp, num_trials, params, list_params, block)
                     EXCEPT !.lp = list_params])

StartTrial(trial_idx, repeat) ==
    ExpCalled("startTrial", trial_idx, repeat, startTrial(exp, trial_idx, repeat))

\* startTrial with a Trial object of the list (lines 514-515)
StartTrialObject(i, repeat) ==
    /\ i \in 1..Len(exp.trials)
    /\ ExpCalled("startTrial", exp.trials[i].index, repeat,
                 startTrial(exp, exp.trials[i].index, repeat))

StartNextTrial == ExpCalled("startNextTrial", 0, FALSE, startNextTrial(exp))

EndCurrentTrial == ExpCalled("endCurrentTrial", 0, FALSE, endCurrentTrial(exp))

NextExperiment ==
    \/ \E num_trials \in 0..2, params \in ParamDicts, list_params \in ListParams,
          block \in {NoBlock, 1} : AddTrials(num_trials, params, list_params, block)
    \/ \E i \in 1..MaxTrials, repeat \in BOOLEAN : StartTrialObject(i, repeat)
    \/ \E trial_idx \in (-MaxTrials - 1)..MaxTrials, repeat \in BOOLEAN :
          StartTrial(trial_idx, repeat)
    \/ StartNextTrial
    \/ EndCurrentTrial

SpecExperiment == InitExperiment /\ [][NextExperiment]_vars

\* the trial list is fixed: only trials are started and ended
NextRun ==
    \/ \E i \in 1..MaxTrials, repeat \in BOOLEAN : StartTrialObject(i, repeat)
    \/ \E trial_idx \in (-MaxTrials - 1)..MaxTrials, repeat \in BOOLEAN :
          StartTrial(trial_idx, repeat)
    \/ StartNextTrial
    \/ EndCurrentTrial

SpecRun == InitExperiment /\ [][NextRun]_vars

(* ------------------- SampleRecorder.addEyeTracker ---------------------- *)
MaxAdds == 6

\* the types of eye tracker that supply monocular data (line 229)
MonocularTypes == { "ViveProEyeTracker" }

\* the eye tracker objects a script has, and type(eye_tracker).__name__
EyeTrackers == { "sensor", "sensor2", "tobii", "pupil" }
TypeName(eye_tracker) ==
    CASE eye_tracker = "tobii" -> "TobiiTracker"
      [] eye_tracker = "pupil" -> "PupilTracker"
      [] OTHER -> "ViveProEyeTracker"

\* SampleRecorder.addEyeTracker (lines 215-232) on the tracker t with the
\* flag _tracker_has_eye_flag
addEyeTracker(t, flag, eye_tracker, replace) ==
    IF t.tracker # "None" /\ ~replace
    THEN [tracker |-> [t EXCEPT !.err = "RuntimeError"], flag |-> flag]
    ELSE [tracker |-> [t EXCEPT !.tracker = eye_tracker, !.type = TypeName(eye_tracker),
                                !.err = ""],
          flag |-> IF TypeName(eye_tracker) \in MonocularTypes THEN TRUE ELSE flag]

\* SampleRecorder() without an eye tracker (lines 62-67)
InitTracker ==
    /\ frame = 0
    /\ sig = 0
    /\ tracker_has_eye_flag = FALSE
    /\ val_samples = <<>>
    /\ validation_results = <<>>
    /\ nruns = 0
    /\ task = [r \in Tasks |-> NoTask]
    /\ recomputed = NoRecompute
    /\ ipd = NoIPD
    /\ stat = NoStat
    /\ exported = NoExport
    /\ exp = NoExperiment /\ pset = NoParamSet /\ gazecall = NoGazeCall /\ InitLater

AddEyeTracker(eye_tracker, replace) ==
    /\ tracker.n < MaxAdds
    /\ LET added == addEyeTracker(tracker, tracker_has_eye_flag, eye_tracker, replace)
       IN  /\ tracker' = [added.tracker EXCEPT !.n = @ + 1, !.arg = eye_tracker,
                                               !.rep = replace]
           /\ tracker_has_eye_flag' = added.flag
    /\ UNCHANGED << frame, sig, val_samples, validation_results, nruns, task, recomputed,
                    ipd, stat, exported, exp, pset, gazecall, recorder, dwell, display,
                    replay >>

NextTracker == \E eye_tracker \in EyeTrackers, replace \in BOOLEAN : AddEyeTracker(eye_tracker, replace)

SpecTracker == InitTracker /\ [][NextTracker]_vars

(* ------------------- SampleRecorder.waitGazeDwell ---------------------- *)
MaxDwellFrames == 5
MaxElapsed == 2

\* the objects passed to waitGazeDwell, by id
Objects == 1..2
\* what the gaze ray hits on a frame (_onUpdate, lines 1036-1048): nothing
\* (_gaze3d_valid False), one of the objects, or another node of the scene
Nothing == 0
Elsewhere == 3
Gazes == Objects \cup { Nothing, Elsewhere }

\* one pass of the loop of waitGazeDwell (lines 318-326) over the dict d,
\* with the elapsed time dt of the frame
Accumulate(d, gaze, dt) ==
    IF gaze # Nothing
    THEN [id \in Objects |-> IF gaze = id THEN d[id] + dt ELSE 0]
    ELSE d

\* the objects whose dwell is reached (lines 330-332); the first one is
\* returned
Selected(d, dwell_time) == { id \in Objects : d[id] >= dwell_time }

\* waitGazeDwell(objects, dwell) was scheduled (lines 312-316)
InitDwell ==
    /\ frame = 0
    /\ sig = 0
    /\ tracker_has_eye_flag = FALSE
    /\ val_samples = <<>>
    /\ validation_results = <<>>
    /\ nruns = 0
    /\ task = [r \in Tasks |-> NoTask]
    /\ recomputed = NoRecompute
    /\ ipd = NoIPD
    /\ stat = NoStat
    /\ exported = NoExport
    /\ exp = NoExperiment /\ pset = NoParamSet /\ gazecall = NoGazeCall
    /\ recorder = NoRec /\ tracker = NoTracker /\ display = NoDisplay /\ replay = NoReplay
    /\ dwell \in { [NoDwell EXCEPT !.pc = "waiting", !.dwell = t] : t \in 2..3 }

\* a frame of the task (lines 318-332): accumulate, wait, return the object
\* whose dwell is reached
DwellFrame(gaze, dt) ==
    /\ dwell.pc = "waiting"
    /\ dwell.n < MaxDwellFrames
    /\ LET d == Accumulate(dwell.d, gaze, dt)
           sel == Selected(d, dwell.dwell)
       IN  dwell' = [dwell EXCEPT
                        !.d = d,
                        !.pc = IF sel # {} THEN "returned" ELSE @,
                        !.ret = IF sel # {} THEN CHOOSE id \in sel : \A o \in sel : id <= o
                                ELSE @,
                        !.rested = [id \in Objects |-> IF gaze = id THEN @[id] + dt ELSE 0],
                        !.gaze = gaze, !.n = @ + 1]
    /\ UNCHANGED << frame, sig, tracker_has_eye_flag, val_samples, validation_results, nruns,
                    task, recomputed, ipd, stat, exported, exp, pset, gazecall,
                    recorder, tracker, display, replay >>

NextDwell == \E gaze \in Gazes, dt \in 1..MaxElapsed : DwellFrame(gaze, dt)

SpecDwell == InitDwell /\ [][NextDwell]_vars

(* ------------------------- SampleReplay -------------------------------- *)
MaxReplaySamples == 3
MaxReplaySteps == 7

\* SampleReplay._set_ui (replay.py, lines 135-153): with the panel shown it
\* reads the time of self._samples[self._frame]
set_ui(rp) ==
    IF rp.ui /\ rp.samples > 0 /\ rp.frame >= rp.samples THEN [rp EXCEPT !.err = "IndexError"]
    ELSE rp

startReplay_restart(rp, from_start) ==
    LET first == [rp EXCEPT !.frame = IF ~rp.replaying \/ from_start \/ @ >= rp.samples
                                      THEN 0 ELSE @,
                            !.player = IF @ = "None" THEN "enabled" ELSE @,
                            !.err = ""]
    IN  IF ~first.replaying
        THEN set_ui([first EXCEPT !.player = "enabled", !.replaying = TRUE,
                                  !.finished = FALSE])
        ELSE first
\* SampleReplay.startReplay (replay.py, lines 289-304); vizact.onupdate
\* gives an enabled callback
startReplay(rp, from_start) ==
    LET first == [rp EXCEPT !.frame = IF from_start \/ @ >= rp.samples THEN 0 ELSE @,
                            !.player = IF @ = "None" THEN "enabled" ELSE @,
                            !.err = ""]
    IN  IF ~first.replaying
        THEN set_ui([first EXCEPT !.player = "enabled", !.replaying = TRUE,
                                  !.finished = FALSE])
        ELSE first

\* SampleReplay.stopReplay (replay.py, lines 307-314)
stopReplay(rp) ==
    IF rp.replaying
    THEN set_ui([rp EXCEPT !.player = IF @ # "None" THEN "disabled" ELSE @,
                           !.replaying = FALSE, !.err = ""])
    ELSE [rp EXCEPT !.err = ""]

\* SampleReplay.resetReplay (replay.py, lines 317-322)
resetReplay(rp) ==
    LET stopped == stopReplay(rp)
    IN  IF stopped.err # "" THEN stopped ELSE set_ui([stopped EXCEPT !.frame = 0])

\* SampleReplay.replayCurrentFrame (replay.py, lines 325-377) with
\* advance=True, as the update callback calls it
replayCurrentFrame(rp) ==
    IF rp.frame >= rp.samples THEN [rp EXCEPT !.err = "IndexError"]
    ELSE LET shown == set_ui([rp EXCEPT !.err = ""])
             advanced == rp.frame + 1
         IN  IF shown.err # "" THEN shown
             ELSE IF advanced >= rp.samples
             THEN [shown EXCEPT !.frame = advanced, !.replaying = FALSE, !.finished = TRUE,
                                !.player = IF @ # "None" THEN "disabled" ELSE @]
             ELSE [shown EXCEPT !.frame = advanced]

\* SampleReplay(recording) with 1..MaxReplaySamples samples, with or without
\* the panel (replay.py, lines 88-96, 126-131)
InitReplay ==
    /\ frame = 0
    /\ sig = 0
    /\ tracker_has_eye_flag = FALSE
    /\ val_samples = <<>>
    /\ validation_results = <<>>
    /\ nruns = 0
    /\ task = [r \in Tasks |-> NoTask]
    /\ recomputed = NoRecompute
    /\ ipd = NoIPD
    /\ stat = NoStat
    /\ exported = NoExport
    /\ exp = NoExperiment /\ pset = NoParamSet /\ gazecall = NoGazeCall
    /\ recorder = NoRec /\ tracker = NoTracker /\ dwell = NoDwell /\ display = NoDisplay
    /\ replay \in { [NoReplay EXCEPT !.samples = n, !.ui = ui] :
                       n \in 1..MaxReplaySamples, ui \in BOOLEAN }

\* a method of the replay was called, or a frame passed, and gave rp
Replayed(op, rp) ==
    /\ replay.n < MaxReplaySteps
    /\ replay' = [rp EXCEPT !.op = op, !.n = @ + 1]
    /\ UNCHANGED << frame, sig, tracker_has_eye_flag, val_samples, validation_results, nruns,
                    task, recomputed, ipd, stat, exported, exp, pset, gazecall,
                    recorder, tracker, dwell, display >>

StartReplay(from_start) ==
    Replayed(IF from_start THEN "startReplay" ELSE "resume",
             [startReplay(replay, from_start) EXCEPT
                 !.played = IF from_start THEN << >> ELSE @,
                 !.pure = IF from_start THEN TRUE
                          ELSE @ /\ replay.frame < replay.samples])

StopReplay == Replayed("stopReplay", stopReplay(replay))

ResetReplay == Replayed("resetReplay", [resetReplay(replay) EXCEPT !.pure = FALSE])

\* a frame: the update callback runs if it is enabled
ReplayTick ==
    /\ replay.player = "enabled"
    /\ Replayed("frame", [replayCurrentFrame(replay) EXCEPT
                             !.played = IF replay.pure /\ replay.frame < replay.samples
                                        THEN Append(@, replay.frame) ELSE @])

NextReplay ==
    \/ \E from_start \in BOOLEAN : StartReplay(from_start)
    \/ StopReplay
    \/ ResetReplay
    \/ ReplayTick

SpecReplay == InitReplay /\ [][NextReplay]_vars

(* ------------- Experiment.clearTrials, randomizeTrials ----------------- *)
\* Experiment.clearTrials (lines 281-285): the current trial index and the
\* running flag are left as they are
clearTrials(e) == [e EXCEPT !.trials = << >>, !.blocks = << >>, !.err = ""]

\* the lists random.shuffle can leave (lines 299-309): any order of the
\* whole list, or the blocks in ascending order, each block's trials in any
\* order
Shuffles(trials, across_blocks) ==
    LET n == Len(trials)
        orders == { p \in Perms(n) :
                      across_blocks \/ \A i, j \in 1..n :
                                          i < j => trials[p[i]].block <= trials[p[j]].block }
    IN  { [i \in 1..n |-> trials[p[i]]] : p \in orders }

\* Experiment.randomizeTrials (lines 288-311); shuffled is the outcome of
\* random.shuffle
randomizeTrials(e, across_blocks, shuffled) ==
    IF e.state = STATE_RUNNING THEN Fail(e, "ValueError")
    ELSE [e EXCEPT !.trials = updateTrialIndices(shuffled), !.blocks = updateBlocks(e.trials),
                   !.err = ""]

\* the blocks of the trials of a design
Designs == { << 0, 0 >>, << 1, 0 >>, << 1, 0, 1 >>, << 0, 1, 0 >> }

\* an experiment whose trial k has the parameter a = k and the block
\* design[k], as addTrialsFromCSV builds it (lines 240-276)
DesignExperiment(py3, design) ==
    LET trials == updateTrialIndices([k \in 1..Len(design) |-> Trial([a |-> k], design[k])])
    IN  [NoExperiment EXCEPT !.py3 = py3, !.trials = trials, !.blocks = updateBlocks(trials)]

InitDesign ==
    /\ frame = 0
    /\ sig = 0
    /\ tracker_has_eye_flag = FALSE
    /\ val_samples = <<>>
    /\ validation_results = <<>>
    /\ nruns = 0
    /\ task = [r \in Tasks |-> NoTask]
    /\ recomputed = NoRecompute
    /\ ipd = NoIPD
    /\ stat = NoStat
    /\ exported = NoExport
    /\ pset = NoParamSet /\ gazecall = NoGazeCall /\ InitLater
    /\ exp \in { DesignExperiment(py3, design) : py3 \in BOOLEAN, design \in Designs }

\* addTrials at any time, also while a trial is in progress
AddTrialsAnytime(num_trials, block) ==
    /\ Len(exp.trials) + num_trials <= MaxTrials
    /\ ExpCalled("addTrials", num_trials, FALSE,
                 addTrials(exp, num_trials, [a |-> 0], << >>, block))

ClearTrials == ExpCalled("clearTrials", 0, FALSE, clearTrials(exp))

RandomizeTrials(across_blocks) ==
    \E shuffled \in Shuffles(exp.trials, across_blocks) :
        ExpCalled("randomizeTrials", 0, across_blocks,
                  randomizeTrials(exp, across_blocks, shuffled))

NextDesign ==
    \/ \E across_blocks \in BOOLEAN : RandomizeTrials(across_blocks)
    \/ ClearTrials
    \/ \E num_trials \in 1..2, block \in {NoBlock, 1} : AddTrialsAnytime(num_trials, block)
    \/ \E trial_idx \in (-MaxTrials)..(MaxTrials - 1), repeat \in BOOLEAN :
          StartTrial(trial_idx, repeat)
    \/ StartNextTrial
    \/ EndCurrentTrial

SpecDesign == InitDesign /\ [][NextDesign]_vars

\* Experiment.randomizeTrials of the vzgazetoolbox package
\* (vzgazetoolbox/experiment.py, lines 180-203): the same, without the final
\* _updateTrialIndices
vz_randomizeTrials(e, across_blocks, shuffled) ==
    IF e.state = STATE_RUNNING THEN Fail(e, "ValueError")
    ELSE [e EXCEPT !.trials = shuffled, !.blocks = updateBlocks(e.trials), !.err = ""]

VzRandomizeTrials(across_blocks) ==
    \E shuffled \in Shuffles(exp.trials, across_blocks) :
        ExpCalled("randomizeTrials", 0, across_blocks,
                  vz_randomizeTrials(exp, across_blocks, shuffled))

\* the vzgazetoolbox experiment: startTrial, startNextTrial and
\* endCurrentTrial (vzgazetoolbox/experiment.py, lines 274-337) are those of
\* vexptoolbox without a recorder
NextVz ==
    \/ \E across_blocks \in BOOLEAN : VzRandomizeTrials(across_blocks)
    \/ \E i \in 1..MaxTrials, repeat \in BOOLEAN : StartTrialObject(i, repeat)
    \/ \E trial_idx \in (-MaxTrials)..(MaxTrials - 1), repeat \in BOOLEAN :
          StartTrial(trial_idx, repeat)
    \/ StartNextTrial
    \/ EndCurrentTrial

SpecVz == InitDesign /\ [][NextVz]_vars

(* ------------------ SampleRecorder.getCurrentGazeMatrix ---------------- *)
MaxGazeFrames == 8

\* _gazemat, _gazematL, _gazematR as << x position, yaw, pitch >>: viz.Matrix()
\* (lines 80-82) until the first sample, then the tracker's matrices of the
\* latest frame; the per-eye ones only with monocular data (lines 1012-1029)
Identity == << 0, 0, 0 >>
gazemat(s, f, has_eye_flag, eye) ==
    IF f = 0 \/ (eye # "BOTH" /\ ~has_eye_flag) THEN Identity
    ELSE << EyePosX(s, f, eye), EyeYaw(s, f, eye), GazePitch(s, f) >>

\* the value a call hands back
Returns(kind, v) == [err |-> "", ret |-> [kind |-> kind, v |-> v]]

\* SampleRecorder.getCurrentGazeMatrix (lines 256-276): without monocular
\* data the NotImplementedError is built and returned, not raised
getCurrentGazeMatrix(s, f, has_eye_flag, eye) ==
    IF eye \in { "L", "R" } /\ ~has_eye_flag THEN Returns("NotImplementedError", <<>>)
    ELSE IF eye \in { "L", "R" } THEN Returns("Matrix", gazemat(s, f, has_eye_flag, eye))
    ELSE Returns("Matrix", gazemat(s, f, has_eye_flag, "BOTH"))

\* one frame: the recorder takes a sample and renews its gaze matrices
GazeFrame ==
    /\ frame < MaxGazeFrames
    /\ frame' = frame + 1
    /\ UNCHANGED << sig, tracker_has_eye_flag, val_samples, validation_results, nruns,
                    task, offline >>

\* a script asks for the current gaze matrix
GetCurrentGazeMatrix(eye) ==
    /\ gazecall' = [eye |-> eye] @@ getCurrentGazeMatrix(sig, frame, tracker_has_eye_flag, eye)
    /\ UNCHANGED << frame, sig, tracker_has_eye_flag, val_samples, validation_results, nruns,
                    task, recomputed, ipd, stat, exported, exp, pset, later >>

\* the eye argument: viz.BOTH_EYE (the default), viz.LEFT_EYE, viz.RIGHT_EYE, None
Eyes == { "BOTH", "L", "R", "None" }

NextGaze ==
    \/ GazeFrame
    \/ \E eye \in Eyes : GetCurrentGazeMatrix(eye)

SpecGaze == Init /\ [][NextGaze]_vars

(* --------------- SampleRecorder: the recording buffers ----------------- *)
MaxSamples == 4
MaxEvents == 3

\* an event of the recording; trial is the number in a TRIAL_ message, else -1
Event(message, trial) == [message |-> message, trial |-> trial]

\* SampleRecorder.recordEvent (lines 1174-1183)
recordEvent(r, ev) == [r EXCEPT !.events = Append(@, ev)]

\* SampleRecorder.recordSample (lines 1150-1155): the sample is written into
\* the preallocated list, or appended once that is full
recordSample(r, s) ==
    IF r.samples_idx < Prealloc
    THEN IF r.samples_idx < Len(r.samples)
         THEN [r EXCEPT !.samples[r.samples_idx + 1] = s, !.samples_idx = @ + 1, !.err = ""]
         ELSE [r EXCEPT !.err = "IndexError"]
    ELSE [r EXCEPT !.samples = Append(@, s), !.err = ""]

\* SampleRecorder.startRecording (lines 1186-1200)
startRecording(r) ==
    IF ~r.recording THEN recordEvent([r EXCEPT !.recording = TRUE], Event("REC_START", -1))
    ELSE r

\* SampleRecorder.stopRecording (lines 1203-1210)
stopRecording(r) ==
    IF r.recording THEN recordEvent([r EXCEPT !.recording = FALSE], Event("REC_STOP", -1))
    ELSE r

\* SampleRecorder.clearRecording (lines 1325-1341)
clearRecording(r, samples, events) ==
    [r EXCEPT !.recording = FALSE,
              !.samples = IF samples THEN [i \in 1..Prealloc |-> 0] ELSE @,
              !.samples_idx = IF samples THEN 0 ELSE @,
              !.events = IF events THEN <<>> ELSE @]

\* lines 450-455 and 476-480: the samples of the current recording, cut to
\* size below the preallocation limit
RawSamples(r) ==
    IF r.samples_idx < Prealloc THEN SubSeq(r.samples, 1, r.samples_idx) ELSE r.samples

\* SampleRecorder._getRawRecording (lines 448-457) and getLastRecording
\* (lines 460-509): the recorder after the call
getRawRecording(r, clear) ==
    [(IF clear THEN clearRecording(r, TRUE, TRUE) ELSE r) EXCEPT !.err = ""]

\* SampleRecorder.saveRecording (lines 1213-1322) on the current recording:
\* the list is cut to size in place (lines 1234-1235), the field list reads
\* samples[0] when a tracker is set (line 1255), and the recording is cleared
\* only if a file was named (lines 1318-1322)
saveRecording(r, has_tracker, sample_file, event_file, clear_samples, clear_events) ==
    LET cut == [r EXCEPT !.samples = RawSamples(r)]
    IN  IF has_tracker /\ cut.samples = <<>> THEN [cut EXCEPT !.err = "IndexError"]
        ELSE IF ~sample_file /\ ~event_file THEN [cut EXCEPT !.err = ""]
        ELSE IF clear_samples \/ clear_events
        THEN [clearRecording(cut, clear_samples, clear_events) EXCEPT !.err = ""]
        ELSE [cut EXCEPT !.err = ""]

\* a recorder with or without an eye tracker
InitRecording ==
    /\ frame = 0
    /\ sig = 0
    /\ val_samples = <<>>
    /\ validation_results = <<>>
    /\ nruns = 0
    /\ task = [r \in Tasks |-> NoTask]
    /\ recomputed = NoRecompute
    /\ ipd = NoIPD
    /\ stat = NoStat
    /\ exported = NoExport
    /\ exp = NoExperiment /\ pset = NoParamSet /\ gazecall = NoGazeCall
    /\ recorder = NoRec /\ dwell = NoDwell /\ display = NoDisplay /\ replay = NoReplay
    /\ \/ tracker = NoTracker /\ tracker_has_eye_flag = FALSE
       \/ tracker = ViveProEye /\ tracker_has_eye_flag = TRUE

\* a method of the recorder was called and left it as r; samples tells
\* whether the method cleared the samples
RecCalled(op, r) ==
    /\ recorder' = [r EXCEPT !.op = op,
                             !.since = IF r.samples_idx = 0 /\ recorder.samples_idx > 0
                                       THEN <<>> ELSE @]
    /\ UNCHANGED << frame, sig, tracker_has_eye_flag, val_samples, validation_results, nruns,
                    task, recomputed, ipd, stat, exported, exp, pset, gazecall,
                    tracker, dwell, display, replay >>

StartRecording ==
    /\ Len(recorder.events) < MaxEvents
    /\ RecCalled("startRecording", startRecording(recorder))

StopRecording ==
    /\ Len(recorder.events) < MaxEvents
    /\ RecCalled("stopRecording", stopRecording(recorder))

\* recordSample, called by a script or by the frame callback while recording
RecordSample ==
    /\ recorder.n < MaxSamples
    /\ \E r \in { recordSample(recorder, recorder.n + 1) } :
           RecCalled("recordSample",
                     [r EXCEPT !.n = @ + 1,
                               !.since = IF r.err = "" THEN Append(@, recorder.n + 1) ELSE @])

SaveRecording(sample_file, event_file, clear_samples, clear_events) ==
    RecCalled("saveRecording",
              saveRecording(recorder, tracker.tracker # "None", sample_file, event_file,
                            clear_samples, clear_events))

ClearRecording(samples, events) ==
    RecCalled("clearRecording", [clearRecording(recorder, samples, events) EXCEPT !.err = ""])

GetLastRecording(clear) == RecCalled("getLastRecording", getRawRecording(recorder, clear))

NextRecording ==
    \/ StartRecording
    \/ StopRecording
    \/ RecordSample
    \/ \E sample_file, event_file, clear_samples, clear_events \in BOOLEAN :
          SaveRecording(sample_file, event_file, clear_samples, clear_events)
    \/ \E samples, events \in BOOLEAN : ClearRecording(samples, events)
    \/ \E clear \in BOOLEAN : GetLastRecording(clear)

SpecRecording == InitRecording /\ [][NextRecording]_vars

(* ----------- Experiment with a sample recorder, auto_record ------------ *)
\* Experiment.startTrial with self._recorder set (lines 530-532)
startTrialRecorded(e, r, trial_idx, repeat) ==
    LET started == startTrial(e, trial_idx, repeat)
    IN  IF started.err # "" THEN [e |-> started, r |-> r]
        ELSE [e |-> started,
              r |-> recordEvent(startRecording(r), Event("TRIAL_START", trial_idx))]

endCurrentTrialRecorded_keep(e, r) ==
    IF ~e.trial_running THEN [e |-> Fail(e, "RuntimeError"), r |-> r]
    ELSE LET pos == Pos(e, e.cur_trial)
             stopped == stopRecording(recordEvent(r, Event("TRIAL_END", e.trials[pos].index)))
         IN  [e |-> [endCurrentTrial(e) EXCEPT !.trials[pos].samples = RawSamples(stopped),
                                               !.trials[pos].events = stopped.events],
              r |-> getRawRecording(stopped, FALSE)]
\* Experiment.endCurrentTrial with self._recorder set (lines 551-556)
endCurrentTrialRecorded(e, r) ==
    IF ~e.trial_running THEN [e |-> Fail(e, "RuntimeError"), r |-> r]
    ELSE LET pos == Pos(e, e.cur_trial)
             stopped == stopRecording(recordEvent(r, Event("TRIAL_END", e.trials[pos].index)))
         IN  [e |-> [endCurrentTrial(e) EXCEPT !.trials[pos].samples = RawSamples(stopped),
                                               !.trials[pos].events = stopped.events],
              r |-> getRawRecording(stopped, TRUE)]

\* an experiment of two or three trials with a sample recorder attached
\* (addSampleRecorder, lines 370-380)
InitRecorded ==
    /\ frame = 0
    /\ sig = 0
    /\ val_samples = <<>>
    /\ validation_results = <<>>
    /\ nruns = 0
    /\ task = [r \in Tasks |-> NoTask]
    /\ recomputed = NoRecompute
    /\ ipd = NoIPD
    /\ stat = NoStat
    /\ exported = NoExport
    /\ pset = NoParamSet /\ gazecall = NoGazeCall
    /\ recorder = NoRec /\ dwell = NoDwell /\ display = NoDisplay /\ replay = NoReplay
    /\ tracker = NoTracker /\ tracker_has_eye_flag = FALSE
    /\ exp \in { NewExperiment(FALSE, n) : n \in 2..MaxTrials }

\* the experiment and its recorder became e and r
Recorded(op, arg, repeat, e, r) ==
    /\ exp' = [e EXCEPT !.op = op, !.nops = exp.nops + 1, !.arg = arg, !.rep = repeat,
                        !.lp = <<>>]
    /\ recorder' = [r EXCEPT !.op = op]
    /\ UNCHANGED << frame, sig, tracker_has_eye_flag, val_samples, validation_results, nruns,
                    task, recomputed, ipd, stat, exported, pset, gazecall,
                    tracker, dwell, display, replay >>

StartTrialRecorded(trial_idx, repeat) ==
    /\ exp.nops < MaxOps
    /\ \E x \in { startTrialRecorded(exp, recorder, trial_idx, repeat) } :
           Recorded("startTrial", trial_idx, repeat, x.e,
                    IF x.e.err # "" THEN x.r
                    ELSE [x.r EXCEPT !.idle = ~recorder.recording /\ recorder.events = <<>>
                                                 /\ RawSamples(recorder) = <<>>,
                                     !.mark = recorder.n])

EndCurrentTrialRecorded ==
    /\ exp.nops < MaxOps
    /\ \E x \in { endCurrentTrialRecorded(exp, recorder) } :
           Recorded("endCurrentTrial", 0, FALSE, x.e, x.r)

\* a display frame: the update callback records a sample while recording is
\* on (lines 1051-1058)
FrameRecorded ==
    /\ recorder.recording /\ recorder.n < MaxSamples
    /\ recorder' = [recordSample(recorder, recorder.n + 1)
                       EXCEPT !.n = @ + 1, !.since = Append(@, recorder.n + 1),
                              !.op = "recordSample"]
    /\ UNCHANGED << frame, sig, tracker_has_eye_flag, val_samples, validation_results, nruns,
                    task, recomputed, ipd, stat, exported, exp, pset, gazecall,
                    tracker, dwell, display, replay >>

\* the script records an event of its own, during a trial or between trials
ScriptEvent ==
    /\ Len(recorder.events) < MaxEvents
    /\ recorder' = [recordEvent(recorder, Event("script", -1)) EXCEPT !.op = "recordEvent"]
    /\ UNCHANGED << frame, sig, tracker_has_eye_flag, val_samples, validation_results, nruns,
                    task, recomputed, ipd, stat, exported, exp, pset, gazecall,
                    tracker, dwell, display, replay >>

NextRecorded ==
    \/ \E trial_idx \in 0..(MaxTrials - 1), repeat \in BOOLEAN :
          StartTrialRecorded(trial_idx, repeat)
    \/ EndCurrentTrialRecorded
    \/ FrameRecorded
    \/ ScriptEvent

SpecRecorded == InitRecorded /\ [][NextRecorded]_vars

(* --------------------------- data.ParamSet ---------------------------- *)
MaxAssign == 3

\* parameter names a script uses; toDict is also the name of a method
ParamKeys == { "a", "b", "toDict" }
ParamValues == { 1, 2 }
\* the methods of the class (lines 234-258), found by attribute lookup
ClassAttrs == { "toDict", "toJSON", "toJSONFile", "fromJSONFile" }

\* what a constructor call may be given: nothing (None, the default), a dict,
\* another ParamSet, or a value of another type (test_data.py line 24)
ParamInputs ==
    { NoneArg,
      [kind |-> "dict", v |-> << >>],
      [kind |-> "dict", v |-> [a |-> 1]],
      [kind |-> "dict", v |-> [a |-> 2, toDict |-> 1]],
      [kind |-> "ParamSet", v |-> << >>],
      [kind |-> "ParamSet", v |-> [b |-> 2]],
      [kind |-> "str", v |-> << >>],
      [kind |-> "int", v |-> << >>],
      [kind |-> "bool", v |-> << >>],
      [kind |-> "list", v |-> << >>] }

\* ParamSet.__init__ (lines 177-185)
NewParamSet(input_dict) ==
    IF input_dict.kind = "none"
    THEN [NoParamSet EXCEPT !.made = TRUE, !.input = input_dict]
    ELSE IF input_dict.kind \notin { "dict", "ParamSet" }
    THEN [NoParamSet EXCEPT !.err = "ValueError", !.input = input_dict]
    ELSE [NoParamSet EXCEPT !.made = TRUE, !.dict = input_dict.v, !.input = input_dict]

\* ParamSet.__getitem__ (lines 188-189)
getitem(p, key) ==
    IF key \in DOMAIN p.dict THEN [err |-> "", val |-> p.dict[key], method |-> FALSE]
    ELSE [err |-> "KeyError", val |-> 0, method |-> FALSE]

\* ParamSet.__setitem__ (lines 192-193)
setitem(p, key, value) == [p EXCEPT !.dict = Update(@, key :> value)]

getattr_class(p, key) ==
    IF key \in ClassAttrs THEN [err |-> "", val |-> 0, method |-> TRUE]
    ELSE IF key \in DOMAIN p.dict THEN [err |-> "", val |-> p.dict[key], method |-> FALSE]
    ELSE [err |-> "AttributeError", val |-> 0, method |-> FALSE]
\* p.key: the instance's __dict__ first, then the methods of the class
\* (the class defines no __getattr__ and no property)
getattr(p, key) ==
    IF key \in DOMAIN p.dict THEN [err |-> "", val |-> p.dict[key], method |-> FALSE]
    ELSE IF key \in ClassAttrs THEN [err |-> "", val |-> 0, method |-> TRUE]
    ELSE [err |-> "AttributeError", val |-> 0, method |-> FALSE]

\* p.key = value: stored in the instance's __dict__ (the class defines no
\* __setattr__ and no __slots__)
setattr(p, key, value) == [p EXCEPT !.dict = Update(@, key :> value)]

\* ParamSet.__len__ (lines 218-219)
len(p) == Cardinality(DOMAIN p.dict)

InitParamSet ==
    /\ frame = 0
    /\ sig = 0
    /\ tracker_has_eye_flag = FALSE
    /\ val_samples = <<>>
    /\ validation_results = <<>>
    /\ nruns = 0
    /\ task = [r \in Tasks |-> NoTask]
    /\ recomputed = NoRecompute
    /\ ipd = NoIPD
    /\ stat = NoStat
    /\ exported = NoExport
    /\ exp = NoExperiment /\ gazecall = NoGazeCall /\ InitLater
    /\ pset = NoParamSet

\* the ParamSet became p
ParamSetBecomes(p) ==
    /\ pset' = p
    /\ UNCHANGED << frame, sig, tracker_has_eye_flag, val_samples, validation_results, nruns,
                    task, recomputed, ipd, stat, exported, exp, gazecall, later >>

\* p = ParamSet(input_dict)
Construct(input_dict) ==
    /\ ~pset.made /\ pset.err = ""
    /\ ParamSetBecomes(NewParamSet(input_dict))

\* p.key = value
AssignAttr(key, value) ==
    /\ pset.made /\ Len(pset.hist) < MaxAssign
    /\ ParamSetBecomes([setattr(pset, key, value)
                            EXCEPT !.hist = Append(@, << key, value, "attr" >>)])

\* p[key] = value
AssignItem(key, value) ==
    /\ pset.made /\ Len(pset.hist) < MaxAssign
    /\ ParamSetBecomes([setitem(pset, key, value)
                            EXCEPT !.hist = Append(@, << key, value, "item" >>)])

NextParamSet ==
    \/ \E input_dict \in ParamInputs : Construct(input_dict)
    \/ \E key \in ParamKeys, value \in ParamValues : AssignAttr(key, value)
    \/ \E key \in ParamKeys, value \in ParamValues : AssignItem(key, value)

SpecParamSet == InitParamSet /\ [][NextParamSet]_vars

(* ---- while not e.done: e.startNextTrial(); e.endCurrentTrial() -------- *)
MaxLoopTrials == 6

\* the script is about to test e.done for the first time
InitLoop ==
    /\ frame = 0
    /\ sig = 0
    /\ tracker_has_eye_flag = FALSE
    /\ val_samples = <<>>
    /\ validation_results = <<>>
    /\ nruns = 0
    /\ task = [r \in Tasks |-> NoTask]
    /\ recomputed = NoRecompute
    /\ ipd = NoIPD
    /\ stat = NoStat
    /\ exported = NoExport
    /\ pset = NoParamSet /\ gazecall = NoGazeCall /\ InitLater
    /\ exp \in { [NewExperiment(py3, n) EXCEPT !.loop = [pc |-> "test", n |-> 0]] :
                    py3 \in BOOLEAN, n \in 1..MaxLoopTrials }

\* one step of the loop: the statement at pc was run and gave e
LoopStep(pc, op, e) ==
    /\ exp.loop.pc = pc
    /\ exp' = [e EXCEPT !.op = op, !.nops = exp.nops + 1,
                        !.loop = [pc |-> IF e.err # "" THEN "raised"
                                         ELSE IF pc = "start" THEN "end" ELSE "test",
                                  n |-> IF pc = "end" /\ e.err = "" THEN @.n + 1 ELSE @.n]]
    /\ UNCHANGED << frame, sig, tracker_has_eye_flag, val_samples, validation_results, nruns,
                    task, recomputed, ipd, stat, exported, pset, gazecall, later >>

\* while not e.done
LoopTest ==
    /\ exp.loop.pc = "test"
    /\ exp' = [exp EXCEPT !.loop.pc = IF ExpDone(exp) THEN "exit" ELSE "start"]
    /\ UNCHANGED << frame, sig, tracker_has_eye_flag, val_samples, validation_results, nruns,
                    task, recomputed, ipd, stat, exported, pset, gazecall, later >>

LoopStart == LoopStep("start", "startNextTrial", startNextTrial(exp))

LoopEnd == LoopStep("end", "endCurrentTrial", endCurrentTrial(exp))

NextLoop ==
    \/ LoopTest
    \/ LoopStart
    \/ LoopEnd

\* the script keeps running: no statement of the loop waits for anything
SpecLoop == InitLoop /\ [][NextLoop]_vars /\ WF_vars(NextLoop)

(* ============================ properties =============================== *)
Started == { r \in Tasks : task[r].pc # "none" }
Finished == { r \in Tasks : task[r].pc = "done" }
Failed == { r \in Tasks : task[r].pc = "failed" }

RECURSIVE TargetPhases(_)
TargetPhases(n) ==
    IF n = 0 THEN <<>> ELSE TargetPhases(n - 1) \o << "SETTLE", "SAMPLING", "FEEDBACK" >>

RunPhases(n) == << "SETUP" >> \o TargetPhases(n) \o << "AGGREGATE", "TEARDOWN" >>

IsPrefix(a, b) == Len(a) <= Len(b) /\ a = SubSeq(b, 1, Len(a))

\* C1: the phases a validation run has entered so far are always a prefix of
\* SETUP, then SETTLE, SAMPLING, FEEDBACK once per target, then AGGREGATE,
\* TEARDOWN; and a run has returned a result only when it went through all
\* of them.
C1_PhaseOrder ==
    \A r \in Started :
        /\ IsPrefix(task[r].phases, RunPhases(Len(task[r].cal_targets)))
        /\ task[r].ret > 0 => task[r].phases = RunPhases(Len(task[r].cal_targets))

C1_Witness ==
    \E r \in Finished : Len(task[r].cal_targets) >= 2 /\ task[r].ret > 0

OwnSamples(batch, r, set_no) ==
    \A i \in 1..Len(batch) : batch[i].rec = r /\ batch[i].win = set_no

\* C2: within one run the update callback is enabled only in the SAMPLING
\* phase, the accumulation list holds samples only while a target is being
\* sampled (it is empty again when the target's FEEDBACK and the next
\* target's SETTLE begin), and every batch the run holds was recorded
\* entirely during the sampling window of its own target.
C2_SamplingOnly ==
    /\ \A r \in Started : task[r].enabled => task[r].pc = "sampling"
    /\ val_samples # <<>> => \E r \in Started : task[r].pc = "sampling"
    /\ \A r \in Started :
        /\ task[r].pc = "feedback" =>
               OwnSamples(task[r].s, r, task[r].cal_targets[task[r].k][1])
        /\ \A i \in 1..Len(task[r].sam_data) :
               OwnSamples(task[r].sam_data[i], r, task[r].tar_data[i].set_no)

C2_Witness ==
    \E r \in Started :
        /\ task[r].pc = "settle" /\ task[r].k = 2
        /\ Len(task[r].sam_data) = 1 /\ Len(task[r].sam_data[1]) >= 2
        /\ val_samples = <<>>

\* C8: when an exception is raised at a target of a run, the run ends there,
\* the list of stored results is at that moment exactly what it was when the
\* run started, and the run never returns a result.
C8_AbortLeavesNoResult ==
    /\ [](\A r \in Started : task[r].err # "" => task[r].pc = "failed" /\ task[r].ret = 0)
    /\ [][\A r \in Tasks :
              task[r].err = "" /\ task'[r].err # ""
                  => validation_results' = task[r].before /\ task'[r].pc = "failed"]_vars

C8_Witness ==
    \E r \in Failed : task[r].k = 2 /\ Len(task[r].tar_data) = 1 /\ task[r].err # ""

\* the batches and records a run has retained so far, in presentation order
Batches(r) == IF task[r].ret > 0 THEN validation_results[task[r].ret].samples
              ELSE task[r].sam_data
Records(r) == IF task[r].ret > 0 THEN validation_results[task[r].ret].targets
              ELSE task[r].tar_data

\* the samples the tracker delivered in the i-th sampling window of run r
Delivered(r, i) ==
    [k \in 1..task[r].windows[i].n |->
        RecordValSample(sig, task[r].windows[i].first + k - 1, tracker_has_eye_flag, r,
                        task[r].cal_targets[i][1])]

Max(a, b) == IF a > b THEN a ELSE b

\* C4: for every target a run has reduced, the retained batch holds
\* max(0, M - 20) samples, they are the delivered samples 21..M in delivery
\* order, and the target's measures are those of exactly these samples.
C4_RetainedBatch ==
    \A r \in Started : \A i \in 1..Len(Batches(r)) :
        LET M == task[r].windows[i].n
            cur == task[r].cal_targets[i]
            late == SubSeq(Delivered(r, i), 21, M)
        IN  /\ Len(Batches(r)[i]) = Max(0, M - 20)
            /\ Map(Batches(r)[i], LAMBDA sam : Raw(sam, tracker_has_eye_flag)) = late
            /\ Records(r)[i] =
                   ReduceAnnotated(cur[1], cur[2], cur[3],
                                   Map(late, LAMBDA sam : Annotate(sam, cur[3],
                                                                   tracker_has_eye_flag)),
                                   tracker_has_eye_flag).d

C4_Witness ==
    \E r \in Finished :
        /\ sig > 0 /\ Len(Batches(r)) = 2
        /\ task[r].windows[1].n = 23 /\ Len(Batches(r)[1]) = 3
        /\ task[r].windows[2].n = 22 /\ Len(Batches(r)[2]) = 2

GlobalVars == ResultVars \ {"start_sample", "end_sample"}
MonoVars == GlobalVars \ {"acc", "accX", "accY", "sd", "sdX", "sdY", "rmsi", "rmsiX", "rmsiY"}

\* C6: every global measure of a stored result of validateEyeTracker is the
\* arithmetic mean of that measure over the per-target records, each target
\* counting once (and MISSING_VALUE when the records do not carry it).
C6_UnweightedMean ==
    \A j \in 1..Len(validation_results) :
        LET vr == validation_results[j]
        IN  \A v \in GlobalVars :
                vr.results[v] = IF v \in DOMAIN vr.targets[1]
                                THEN mean(Col(vr.targets, v)).val
                                ELSE MISSING_VALUE

\* a result whose targets retained different numbers of samples and whose
\* mean over targets differs from the mean of the pooled samples
C6_Witness ==
    \E j \in 1..Len(validation_results) :
        LET vr == validation_results[j]
        IN  /\ Len(vr.targets) = 2
            /\ Len(vr.samples[1]) # Len(vr.samples[2])
            /\ vr.results.acc = mean(<< vr.targets[1].acc, vr.targets[2].acc >>).val
            /\ vr.results.acc # mean(Col(Flatten(vr.samples), "targetErr")).val

\* C7: a run never fails at a target whose sampling window delivered 21
\* samples or fewer (this is the claim; the code raises ZeroDivisionError).
C7_TooFewSamplesTolerated ==
    \A r \in Failed : task[r].windows[task[r].k].n > StableSkip + 1

\* C10 as claimed: every per-target record carries the per-eye measures and
\* ipd, with MISSING_VALUE when the tracker supplies no monocular data.
C10_UniformRecords ==
    \A r \in Started : \A i \in 1..Len(Records(r)) :
        /\ MonoVars \subseteq DOMAIN Records(r)[i]
        /\ ~tracker_has_eye_flag =>
               \A v \in MonoVars : Records(r)[i][v] = MISSING_VALUE

\* C10 amended: the global measures of a stored result always cover every
\* variable, with MISSING_VALUE for the per-eye measures and ipd when the
\* tracker supplies no monocular data; the per-target records carry the
\* per-eye measures and ipd exactly when the tracker supplies monocular data.
C10_GlobalMissing ==
    /\ \A j \in 1..Len(validation_results) :
           /\ DOMAIN validation_results[j].results = ResultVars
           /\ ~tracker_has_eye_flag =>
                  \A v \in MonoVars : validation_results[j].results[v] = MISSING_VALUE
    /\ \A r \in Started : \A i \in 1..Len(Records(r)) :
           IF tracker_has_eye_flag THEN MonoVars \subseteq DOMAIN Records(r)[i]
           ELSE MonoVars \cap DOMAIN Records(r)[i] = {}

C10_Witness ==
    /\ ~tracker_has_eye_flag
    /\ \E r \in Finished : Len(Records(r)) = 2 /\ "acc" \in DOMAIN Records(r)[1]

\* vr has one record and one batch for each of the input targets, and the
\* batch at every index was recorded for the target its record describes
Aligned(vr, targets) ==
    /\ Len(vr.targets) = Len(targets)
    /\ Len(vr.samples) = Len(targets)
    /\ \A i \in 1..Len(vr.targets) :
           /\ vr.targets[i].set_no \in 0..(Len(targets) - 1)
           /\ << vr.targets[i].x, vr.targets[i].y, vr.targets[i].d >>
                  = targets[vr.targets[i].set_no + 1]
           /\ \A k \in 1..Len(vr.samples[i]) :
                  vr.samples[i][k].win = vr.targets[i].set_no

\* the input targets of the run that stored result j
InputTargets(j) == task[CHOOSE r \in Tasks : task[r].ret = j].targets

\* C5: every result stored by validateEyeTracker, and every result returned
\* by recomputeMetrics for a stored result, has as many records as batches,
\* one for each input target, and the batch at index i is the one recorded
\* for the target of record i, in whatever order the targets were presented.
C5_TargetsAlignSamples ==
    /\ \A j \in 1..Len(validation_results) :
           Aligned(validation_results[j], InputTargets(j))
    /\ recomputed.src > 0 /\ recomputed.err = ""
           => Aligned(recomputed.out, InputTargets(recomputed.src))

\* a recomputed result of a run that presented two targets in swapped order
C5_Witness ==
    /\ recomputed.src > 0 /\ recomputed.err = ""
    /\ Len(recomputed.out.targets) = 2
    /\ recomputed.out.targets[1].set_no = 1
    /\ Len(recomputed.out.samples[1]) = 3
    /\ recomputed.call.tar_x_range # NoneArg

\* C9: mean, sd, median, rmsi and mad called on the empty list raise an
\* error and return no value.
C9_EmptyInputRaises ==
    stat.fn # "" /\ stat.x = <<>> => stat.res.err # ""

C9_Witness ==
    /\ stat.x = <<>> /\ stat.fn = "median" /\ stat.res.err = "IndexError"

\* C3: also when validation is scheduled again while a run is in flight, the
\* batch a run takes for a target holds exactly the samples that run's own
\* callback recorded during that target's sampling window: none from another
\* run, none lost, none twice (this is the claim; the code shares one list).
C3_ExclusiveOwnership ==
    \A r \in Started :
        /\ task[r].pc = "feedback" =>
               /\ OwnSamples(task[r].s, r, task[r].cal_targets[task[r].k][1])
               /\ Len(task[r].s) = task[r].windows[task[r].k].n
        /\ \A i \in 1..Len(Batches(r)) :
               /\ OwnSamples(Batches(r)[i], r, Records(r)[i].set_no)
               /\ Len(Batches(r)[i]) = Max(0, task[r].windows[i].n - StableSkip)

\* C11: with monocular data, the errors stored for an eye in a retained
\* sample (targetErrL, targetErrL_X, targetErrL_Y and the same for R) do not
\* depend on the combined gaze vector: computed again from the same sample
\* with another combined gaze direction, they are the same (this is the
\* claim; line 865 reads the combined rotation angularDiff).
C11_EyeIndependent ==
    tracker_has_eye_flag =>
        \A r \in Started : \A i \in 1..Len(Batches(r)) : \A k \in 1..Len(Batches(r)[i]) :
            LET sam == Batches(r)[i][k]
                other == [sam EXCEPT !.trackVec_X = @ + Unit, !.trackVec_Y = @ - Unit]
                tgtHMD == task[r].cal_targets[i][3]
                L == AnnotateEye(other, tgtHMD, "L")
                R == AnnotateEye(other, tgtHMD, "R")
            IN  /\ L.err = sam.targetErrL /\ R.err = sam.targetErrR
                /\ L.errX = sam.targetErrL_X /\ L.errY = sam.targetErrL_Y
                /\ R.errX = sam.targetErrR_X /\ R.errY = sam.targetErrR_Y

\* C12: with a tracker without monocular data measureIPD ends with
\* NotImplementedError as soon as it is started: its update callback was
\* never registered and recorded no sample.  A validation run with the same
\* tracker is not rejected: it gets past its setup to the first target.
C12_IPDRejectedValidationNot ==
    ~tracker_has_eye_flag =>
        /\ ipd.pc \in {"none", "failed"}
        /\ ipd.pc = "failed" => ipd.err = "NotImplementedError"
        /\ ~ipd.registered /\ ~ipd.enabled /\ ipd.n = 0
        /\ \A r \in Started :
               /\ Len(task[r].phases) >= 2
               /\ task[r].err \notin {"NotImplementedError", "RuntimeError"}

C12_Witness ==
    /\ ~tracker_has_eye_flag
    /\ ipd.pc = "failed" /\ ipd.err = "NotImplementedError"
    /\ \E r \in Finished : task[r].ret > 0

\* C13: the presentation order of a run is a permutation of its input
\* targets: every index of the input list is presented exactly once, the
\* record of the i-th presented target carries that target's index as set_no
\* and its coordinates, a finished run has sampled every target once, and
\* without randomize the presentation order is the input order.
C13_PresentationIsPermutation ==
    /\ [](\A r \in Started :
            LET N == Len(task[r].targets)
                order == [i \in 1..N |-> task[r].cal_targets[i][1]]
            IN  /\ Len(task[r].cal_targets) = N
                /\ \A c \in 0..(N - 1) : Cardinality({ i \in 1..N : order[i] = c }) = 1
                /\ \A i \in 1..Len(Records(r)) :
                       /\ Records(r)[i].set_no = order[i]
                       /\ << Records(r)[i].x, Records(r)[i].y, Records(r)[i].d >>
                              = task[r].targets[order[i] + 1]
                /\ task[r].ret > 0 =>
                       /\ Len(Records(r)) = N /\ Len(task[r].windows) = N
                       /\ \A i \in 1..N : task[r].windows[i].n > 0)
    /\ [][\A targets \in TargetSets : \A perm \in Perms(Len(targets)) :
              StartValidation(targets, FALSE, perm, NoneArg) =>
                  \A i \in 1..Len(targets) : task'[nruns'].cal_targets[i][1] = i - 1]_vars

C13_Witness ==
    \E r \in Finished :
        /\ task[r].ret > 0
        /\ Len(Records(r)) = 2
        /\ Records(r)[1].set_no = 1 /\ Records(r)[2].set_no = 0

\* C14: a recomputeMetrics call that returns leaves the stored results, and
\* with them the source's global measures, per-target records and samples,
\* exactly as they were before the call.
C14_RecomputeLeavesSource ==
    [][recomputed'.src > 0 /\ recomputed.src = 0 /\ recomputed'.err = ""
           => validation_results' = validation_results]_vars

\* a returned result whose records differ from those of its unchanged source
C14_Witness ==
    /\ recomputed.src > 0 /\ recomputed.err = ""
    /\ recomputed.call.start_sample = 1
    /\ Len(recomputed.out.targets) = 2
    /\ recomputed.out.targets # validation_results[recomputed.src].targets
    /\ recomputed.out.samples = validation_results[recomputed.src].samples

\* C15: recomputeMetrics with no restriction on the result of a validation
\* run returns the global measures of that run (this is the claim; the code
\* takes sdX, sdY, rmsiX, rmsiY from absolute values and cuts every target
\* to the sample count of the first).
C15_RecomputeReproduces ==
    recomputed.src > 0 /\ recomputed.call = DefaultCall /\ recomputed.err = ""
        => \A v \in GlobalVars :
               recomputed.out.results[v] = validation_results[recomputed.src].results[v]

\* the same for runs whose targets all retained the same number of samples
C15_EqualCounts ==
    /\ recomputed.src > 0 /\ recomputed.call = DefaultCall /\ recomputed.err = ""
    /\ \A i \in 1..Len(recomputed.out.samples) :
           Len(recomputed.out.samples[i]) = Len(recomputed.out.samples[1])
    => \A v \in GlobalVars :
           recomputed.out.results[v] = validation_results[recomputed.src].results[v]

\* v lies in the range a caller gave as a scalar or as (min, max)
WithinArg(v, arg, symmetric) ==
    \/ arg.kind = "none"
    \/ arg.kind = "scalar" /\ (IF symmetric THEN -arg.v[1] ELSE 0) <= v /\ v <= arg.v[1]
    \/ arg.kind = "seq" /\ Len(arg.v) = 2 /\ arg.v[1] <= v /\ v <= arg.v[2]

Kept(tar, call) ==
    /\ WithinArg(tar.x, call.tar_x_range, TRUE)
    /\ WithinArg(tar.y, call.tar_y_range, TRUE)
    /\ WithinArg(tar.d, call.depth_range, FALSE)

Filtered(call) ==
    call.tar_x_range # NoneArg \/ call.tar_y_range # NoneArg \/ call.depth_range # NoneArg

Returned == recomputed.src > 0 /\ recomputed.err = ""
Source == validation_results[recomputed.src]

\* C16: in a result recomputeMetrics returned for a call with a spatial
\* filter, there is one record for every source target, each record is the
\* one the same call without the filter gives, and every global measure is
\* the aggregate over the records of the targets inside the ranges only.
C16_FilterOnlyAggregate ==
    Returned /\ Filtered(recomputed.call) =>
        LET call == recomputed.call
            out == recomputed.out
            plain == recomputeMetrics(Source, call.start_sample, call.end_sample,
                                      NoneArg, NoneArg, NoneArg, call.agg_fun)
            kept == SelectSeq(out.targets, LAMBDA tar : Kept(tar, call))
        IN  /\ Len(out.targets) = Len(Source.targets)
            /\ out.targets = plain.out.targets
            /\ \A v \in GlobalVars :
                   out.results[v] =
                       IF kept # <<>> /\ v \in DOMAIN kept[1]
                       THEN Aggregate(call.agg_fun, Col(kept, v)).val
                       ELSE MISSING_VALUE

\* a returned result where the second target lies outside the x range and
\* the global accuracy is that of the first target alone
C16_Witness ==
    /\ Returned /\ recomputed.call.tar_x_range = Scalar(Deg(0))
    /\ Len(recomputed.out.targets) = 2
    /\ recomputed.out.targets[1].x = Deg(0) /\ recomputed.out.targets[2].x = Deg(5)
    /\ recomputed.out.results.acc = recomputed.out.targets[1].acc
    /\ recomputed.out.targets[2].acc # recomputed.out.targets[1].acc

ExcludesAll(call, vr) == \A i \in 1..Len(vr.targets) : ~Kept(vr.targets[i], call)

BadRange(arg) == arg.kind = "seq" /\ Len(arg.v) # 2
NegativeDepth(call) == call.depth_range.kind # "none" /\ call.depth_range.v[1] < 0
ValidRanges(call) ==
    /\ ~BadRange(call.tar_x_range) /\ ~BadRange(call.tar_y_range)
    /\ ~BadRange(call.depth_range) /\ ~NegativeDepth(call)

\* C17: a recomputeMetrics call over all samples whose spatial filter
\* excludes every target returns a result; all its global measures are
\* MISSING_VALUE and it has a record for every source target.
C17_AllExcluded ==
    /\ recomputed.src > 0
    /\ ValidRanges(recomputed.call) /\ ExcludesAll(recomputed.call, Source)
    /\ recomputed.call.start_sample = 0 /\ recomputed.call.end_sample = -1
    => /\ recomputed.err = ""
       /\ Len(recomputed.out.targets) = Len(Source.targets)
       /\ \A v \in GlobalVars :
              v \in DOMAIN recomputed.out.results
                  /\ recomputed.out.results[v] = MISSING_VALUE

C17_Witness ==
    /\ Returned /\ recomputed.call.depth_range = Scalar(Deg(5))
    /\ Len(recomputed.out.targets) = 2
    /\ recomputed.out.results.acc = MISSING_VALUE
    /\ recomputed.out.targets[1].acc # MISSING_VALUE

NoSamples(call, vr) ==
    \E i \in 1..Len(vr.samples) : call.start_sample >= Len(vr.samples[i])

\* C18: a recomputeMetrics call with a range argument of a wrong length, a
\* negative depth value, or a sample window beyond a target's samples raises
\* an error; and a call that raises returns no result and leaves the stored
\* results as they were.
C18_FailedRecompute ==
    /\ [](recomputed.src > 0 =>
            LET call == recomputed.call
            IN  /\ (BadRange(call.tar_x_range) \/ BadRange(call.tar_y_range)
                        \/ BadRange(call.depth_range)) => recomputed.err = "ValueError"
                /\ NegativeDepth(call) => recomputed.err = "ValueError"
                /\ (~Filtered(call) /\ NoSamples(call, Source)) => recomputed.err # ""
                /\ recomputed.err # "" => recomputed.out = NoResult)
    /\ [][recomputed'.src > 0 /\ recomputed.src = 0 /\ recomputed'.err # ""
              => validation_results' = validation_results]_vars

C18_Witness ==
    /\ recomputed.src > 0 /\ recomputed.call.start_sample = 1
    /\ recomputed.err = "ZeroDivisionError"
    /\ Len(Source.samples) = 2
    /\ Len(Source.samples[1]) = 3 /\ Len(Source.samples[2]) = 2

C20_MetadataMerged ==
    /\ [](\A r \in Finished :
            LET rmeta == validation_results[task[r].ret].metadata
                given == IF task[r].metadata.kind = "none" THEN <<>> ELSE task[r].metadata.v
            IN  /\ DOMAIN rmeta = DOMAIN given \cup {"datetime", "label", "version"}
                /\ \A k \in DOMAIN given : rmeta[k] = given[k]
                /\ "label" \notin DOMAIN given => rmeta.label = "validation"
                /\ "version" \notin DOMAIN given => rmeta.version = Unit \div 10)
    /\ [][\A r \in Tasks : task[r].pc # "none" => task'[r].metadata = task[r].metadata]_vars

\* a finished run whose caller gave its own label and datetime, and a key
\* of its own
C20_Witness ==
    \E r \in Finished :
        /\ task[r].metadata.kind = "dict"
        /\ "label" \in DOMAIN task[r].metadata.v
        /\ validation_results[task[r].ret].metadata.label = "pilot"
        /\ validation_results[task[r].ret].metadata.datetime = 0
        /\ validation_results[task[r].ret].metadata.subject = 7
        /\ validation_results[task[r].ret].metadata.version = Unit \div 10

InvalidSpec(targets) == targets = <<>> \/ \E c \in 1..Len(targets) : targets[c][3] <= 0

\* C21: a validation run whose target list is empty or holds a target of
\* depth <= 0 ends in its setup with an error: no target is presented, no
\* sample is collected, and no position stands in for the target's.
C21_InvalidTargetsFailFast ==
    \A r \in Started :
        InvalidSpec(task[r].targets) =>
            /\ task[r].pc = "failed" /\ task[r].err # ""
            /\ task[r].phases = << "SETUP" >>
            /\ task[r].cal_targets = <<>>

\* the part of C21 the code does meet: an empty target list ends the setup
C21_EmptyListFails ==
    \A r \in Started :
        task[r].targets = <<>> =>
            task[r].pc = "failed" /\ task[r].err = "ValueError" /\ task[r].phases = << "SETUP" >>

\* the dot product of the two unit vectors as computed, before any clamp
RawDot == Dot(Normalize(stat.x[1]), stat.x[2])

\* C22: the angular error of two vectors is a number between 0 and 180
\* degrees, never an arccos outside its domain: 0 when the computed dot
\* product is 1 or above, 180 when it is -1 or below.
C22_ClampedArcCos ==
    stat.fn = "angle" =>
        /\ stat.res.err = ""
        /\ 0 <= stat.res.val /\ stat.res.val <= 180 * Unit
        /\ RawDot >= Unit => stat.res.val = 0
        /\ RawDot <= -Unit => stat.res.val = 180 * Unit

\* rounding pushed the dot product of two equal directions above 1
C22_Witness ==
    stat.fn = "angle" /\ RawDot > Unit /\ stat.res.err = "" /\ stat.res.val = 0

\* ... and that of two opposite directions below -1
C22_WitnessBelow ==
    stat.fn = "angle" /\ RawDot < -Unit /\ stat.res.err = "" /\ stat.res.val = 180 * Unit

\* what a call can change of an experiment
Core(e) == [trials |-> e.trials, blocks |-> e.blocks, state |-> e.state,
            cur_trial |-> e.cur_trial, trial_running |-> e.trial_running]
ExpOp(op) == exp'.nops = exp.nops + 1 /\ exp'.op = op
InProgress(e) == { i \in 1..Len(e.trials) : TrialRunning(e.trials[i]) }

\* C23: endCurrentTrial called while no trial is in progress raises
\* RuntimeError and leaves the trials, the experiment state and the current
\* trial index as they were.
C23_EndWithoutTrial ==
    [][ExpOp("endCurrentTrial") /\ ~exp.trial_running
           => exp'.err = "RuntimeError" /\ Core(exp') = Core(exp)]_vars

\* endCurrentTrial was refused after a trial had been run
C23_Witness ==
    /\ exp.op = "endCurrentTrial" /\ exp.err = "RuntimeError"
    /\ ~exp.trial_running /\ exp.log # <<>> /\ exp.state = STATE_RUNNING

\* C24: at most one trial is in progress.  A start while a trial is in
\* progress raises RuntimeError and changes nothing; a trial that was
\* started is running, not done, and is the current trial; endCurrentTrial
\* leaves that trial done and not running, and no trial in progress.
C24_OneTrialInProgress ==
    /\ [](/\ Cardinality(InProgress(exp)) <= 1
          /\ exp.trial_running <=> InProgress(exp) # {}
          /\ exp.trial_running => InProgress(exp) = { Pos(exp, exp.cur_trial) })
    /\ [][(ExpOp("startTrial") \/ ExpOp("startNextTrial")) /\ exp.trial_running
              => exp'.err = "RuntimeError" /\ Core(exp') = Core(exp)]_vars
    /\ [][(ExpOp("startTrial") \/ ExpOp("startNextTrial")) /\ exp'.err = ""
              => LET cur == exp'.trials[Pos(exp', exp'.cur_trial)]
                 IN  /\ TrialRunning(cur) /\ ~TrialDone(cur)
                     /\ Pos(exp', exp'.cur_trial) = exp'.log[Len(exp'.log)]]_vars
    /\ [][ExpOp("endCurrentTrial") /\ exp.trial_running
              => LET was == Pos(exp, exp.cur_trial)
                 IN  /\ exp'.err = ""
                     /\ TrialDone(exp'.trials[was]) /\ ~TrialRunning(exp'.trials[was])
                     /\ ~exp'.trial_running /\ InProgress(exp') = {}]_vars

\* a start was refused while the second trial of three was in progress
C24_Witness ==
    /\ exp.op \in {"startTrial", "startNextTrial"} /\ exp.err = "RuntimeError"
    /\ exp.trial_running /\ InProgress(exp) = {2} /\ Len(exp.trials) = 3

\* C25: startTrial on a trial that is done raises RuntimeError and changes
\* nothing unless repeat is True, and then starts it again; startTrial with
\* an index outside the list raises IndexError and changes nothing.
C25_RunOnceUnlessRepeat ==
    /\ [][\A i \in 1..Len(exp.trials) :
              TrialDone(exp.trials[i]) /\ exp'.trials[i].nstart > exp.trials[i].nstart
                  => exp'.op = "startTrial" /\ exp'.rep]_vars
    /\ [][ExpOp("startTrial") /\ exp'.err = "IndexError" => Core(exp') = Core(exp)]_vars
    /\ [][ExpOp("startTrial") /\ exp'.err = "RuntimeError" => Core(exp') = Core(exp)]_vars
    /\ [][ExpOp("startTrial") /\ ~exp.trial_running /\ exp'.err # "IndexError"
              /\ exp'.arg \in (-Len(exp.trials))..(Len(exp.trials) - 1)
              => LET pos == Pos(exp, exp'.arg)
                 IN  IF TrialDone(exp.trials[pos]) /\ ~exp'.rep
                     THEN exp'.err = "RuntimeError"
                     ELSE exp'.err = "" /\ TrialRunning(exp'.trials[pos])
                              /\ exp'.trials[pos].nstart = exp.trials[pos].nstart + 1]_vars
    /\ [][ExpOp("startTrial") /\ ~exp.trial_running
              /\ exp'.arg \notin (-Len(exp.trials))..(Len(exp.trials) - 1)
              => exp'.err = "IndexError"]_vars

\* a done trial was refused without repeat ...
C25_WitnessRefused ==
    /\ exp.op = "startTrial" /\ exp.err = "RuntimeError" /\ ~exp.trial_running /\ ~exp.rep
    /\ TrialDone(exp.trials[Pos(exp, exp.arg)])

\* ... and was started a second time with repeat=True
C25_Witness ==
    /\ exp.op = "startTrial" /\ exp.err = "" /\ exp.rep
    /\ exp.trials[Pos(exp, exp.arg)].nstart = 2
    /\ TrialRunning(exp.trials[Pos(exp, exp.arg)])

\* ... and an index beyond the list was refused
C25_WitnessIndex ==
    /\ exp.op = "startTrial" /\ exp.err = "IndexError" /\ exp.arg = Len(exp.trials)
    /\ Len(exp.trials) > 0

C27_DoneMeansAllRun ==
    ExpDone(exp) => \A i \in 1..Len(exp.trials) : TrialDone(exp.trials[i])

\* the trials without the index that _updateTrialIndices rewrites
Content(trials) == [i \in 1..Len(trials) |-> [trials[i] EXCEPT !.index = 0]]

\* what a call of addTrials is to do, by the lengths of its list_params
AddTrialsContract ==
    LET num == exp'.arg
        lp == exp'.lp
        old == Len(exp.trials)
    IN  IF \E key \in DOMAIN lp : Len(lp[key]) # num
        THEN /\ exp'.err = "ValueError"
             /\ exp'.trials = exp.trials /\ exp'.blocks = exp.blocks
        ELSE /\ exp'.err = ""
             /\ Len(exp'.trials) = old + num
             /\ Content(SubSeq(exp'.trials, 1, old)) = Content(exp.trials)
             /\ \A k \in 1..num : \A key \in DOMAIN lp :
                    /\ key \in DOMAIN exp'.trials[old + k].params
                    /\ exp'.trials[old + k].params[key] = lp[key][k]

\* C28: addTrials with a list_params entry whose length differs from
\* num_trials raises ValueError and leaves the trial list and the block list
\* unchanged; with matching lengths it appends exactly num_trials trials in
\* order, trial k of the batch receiving the k-th value of every list
\* parameter.
C28_AddTrials == [][ExpOp("addTrials") => AddTrialsContract]_vars

\* under Python 2 every call of addTrials does so
C28_Python2 == [][ExpOp("addTrials") /\ ~exp.py3 => AddTrialsContract]_vars

\* the part of C28 about a wrong length holds under either Python version
C28_WrongLength ==
    [][ExpOp("addTrials") /\ (\E key \in DOMAIN exp'.lp : Len(exp'.lp[key]) # exp'.arg)
          => /\ exp'.err = "ValueError"
             /\ exp'.trials = exp.trials /\ exp'.blocks = exp.blocks]_vars

\* under Python 3 no call of addTrials for one trial or more succeeds
C28_Python3Fails ==
    [][ExpOp("addTrials") /\ exp.py3 /\ exp'.arg > 0
          => exp'.err \in {"ValueError", "AttributeError"} /\ exp'.trials = exp.trials]_vars

\* the keys given to the constructor or assigned since
Assigned(p) == DOMAIN p.input.v \cup { p.hist[i][1] : i \in 1..Len(p.hist) }

\* the value a key was given last: by the latest assignment to it, or else
\* by the constructor's input
Latest(p, key) ==
    LET at == { i \in 1..Len(p.hist) : p.hist[i][1] = key }
    IN  IF at = {} THEN p.input.v[key]
        ELSE p.hist[CHOOSE i \in at : \A j \in at : j <= i][2]

\* C29: after any sequence of attribute and key assignments p['k'] and p.k
\* give the same value, the one assigned to k last, for every k, and len(p)
\* is the number of distinct keys; constructing a ParamSet from a value that
\* is neither a dict nor a ParamSet (None, the default, standing for no
\* input) raises ValueError.
C29_OneStore ==
    /\ pset.made
         => /\ \A key \in Assigned(pset) :
                   /\ getitem(pset, key) = getattr(pset, key)
                   /\ getattr(pset, key).err = "" /\ ~getattr(pset, key).method
                   /\ getattr(pset, key).val = Latest(pset, key)
            /\ len(pset) = Cardinality(Assigned(pset))
    /\ pset.input.kind \notin { "none", "dict", "ParamSet" }
         => ~pset.made /\ pset.err = "ValueError"
    /\ pset.err # "" => pset.input.kind \notin { "none", "dict", "ParamSet" }

\* a key given by the constructor's dict was assigned by attribute and then
\* by key, and a key that names a method was assigned as well
C29_Witness ==
    /\ pset.made /\ pset.input.kind = "dict" /\ "a" \in DOMAIN pset.input.v
    /\ Len(pset.hist) = 3 /\ pset.hist[1][1] = "a" /\ pset.hist[2][1] = "a"
    /\ pset.hist[1][3] = "attr" /\ pset.hist[2][3] = "item"
    /\ pset.hist[1][2] # pset.hist[2][2] /\ pset.hist[3][1] = "toDict"
    /\ getattr(pset, "a").val = pset.hist[2][2]

\* a constructor call with a list was refused
C29_WitnessRefused ==
    ~pset.made /\ pset.err = "ValueError" /\ pset.input.kind = "list"

\* C30: getCurrentGazeMatrix asked for the left or the right eye on a tracker
\* without monocular data raises an error and returns no value.
C30_SingleEyeRaises ==
    gazecall.eye \in { "L", "R" } /\ ~tracker_has_eye_flag
        => gazecall.err # "" /\ gazecall.ret.kind = "none"

\* what the call does instead: it returns, and what it returns is never a
\* gaze matrix
C30_NoMatrix ==
    gazecall.eye \in { "L", "R" } /\ ~tracker_has_eye_flag
        => gazecall.err = "" /\ gazecall.ret.kind = "NotImplementedError"

\* C31: a result recomputeMetrics returned for end_sample=None holds, for
\* every target, the measures of all of that target's own samples from
\* start_sample to its last one, however many samples the other targets have.
C31_OwnWindow ==
    Returned /\ recomputed.call.end_sample = -1 =>
        \A i \in 1..Len(recomputed.out.targets) :
            LET own == RecomputeTarget(Source.targets[i],
                                       Slice(Source.samples[i], recomputed.call.start_sample,
                                             Len(Source.samples[i])))
            IN  own.err = "" /\ recomputed.out.targets[i] = own.d

\* the same holds for the first target, and for every target that has no
\* more samples than the first
C31_FirstTargetWindow ==
    Returned /\ recomputed.call.end_sample = -1 =>
        \A i \in 1..Len(recomputed.out.targets) :
            Len(Source.samples[i]) <= Len(Source.samples[1]) =>
                LET own == RecomputeTarget(Source.targets[i],
                                           Slice(Source.samples[i], recomputed.call.start_sample,
                                                 Len(Source.samples[i])))
                IN  own.err = "" /\ recomputed.out.targets[i] = own.d

\* C32: after any sequence of startRecording, recordSample, stopRecording,
\* saveRecording, clearRecording and getLastRecording a further recordSample
\* succeeds, and the recording handed out holds exactly the samples recorded
\* since samples were last cleared, in order, below and above the
\* preallocation limit.
C32_BufferIntact ==
    /\ recordSample(recorder, recorder.n + 1).err = ""
    /\ RawSamples(recorder) = recorder.since

\* the recording handed out is right in every state; only the next
\* recordSample can fail
C32_RecordingRight == RawSamples(recorder) = recorder.since

\* the trial that endCurrentTrial has just ended
Ended == exp.trials[Pos(exp, exp.cur_trial)]
JustEnded == exp.op = "endCurrentTrial" /\ recorder.op = "endCurrentTrial" /\ exp.err = ""

\* C33: a trial started while the recorder was idle and ended by
\* endCurrentTrial holds exactly the samples recorded between its start and
\* its end; its events begin with REC_START, TRIAL_START i and end with
\* TRIAL_END i, REC_STOP; the recorder is then not recording and its buffers
\* are empty; no sample belongs to two trials.
C33_TrialGetsItsRecording ==
    /\ JustEnded /\ recorder.idle
         => LET ev == Ended.events
                i == Ended.index
            IN  /\ Ended.samples = [k \in 1..(recorder.n - recorder.mark) |-> recorder.mark + k]
                /\ Len(ev) >= 4
                /\ ev[1] = Event("REC_START", -1) /\ ev[2] = Event("TRIAL_START", i)
                /\ ev[Len(ev) - 1] = Event("TRIAL_END", i)
                /\ ev[Len(ev)] = Event("REC_STOP", -1)
                /\ \A k \in 3..(Len(ev) - 2) : ev[k] = Event("script", -1)
    /\ JustEnded
         => ~recorder.recording /\ RawSamples(recorder) = <<>> /\ recorder.events = <<>>
    /\ \A a, b \in 1..Len(exp.trials) :
           a # b => \A k \in 1..Len(exp.trials[a].samples) :
                       \A m \in 1..Len(exp.trials[b].samples) :
                           exp.trials[a].samples[k] # exp.trials[b].samples[m]

\* the second trial has ended with samples beyond the preallocation limit
\* and a script event, after a first trial that had samples of its own
C33_Witness ==
    /\ JustEnded /\ recorder.idle /\ Len(exp.log) = 2
    /\ Len(Ended.samples) > Prealloc /\ Len(Ended.events) = 5
    /\ \E a \in 1..Len(exp.trials) : a # Pos(exp, exp.cur_trial) /\ exp.trials[a].samples # <<>>


(* --------------------------- C34 --------------------------------------- *)
\* the trials of new are those of old in some order (indices apart)
Permuted(old, new) ==
    /\ Len(new) = Len(old)
    /\ \E p \in Perms(Len(old)) : \A i \in 1..Len(old) : Content(new)[i] = Content(old)[p[i]]

\* the trials of one block, in list order, indices apart
OfBlock(trials, block) == SelectSeq(Content(trials), LAMBDA tr : tr.block = block)

\* C34: randomizeTrials raises ValueError and leaves the trial list as it
\* was while the experiment is running; otherwise the new list is a
\* permutation of the old one, with across_blocks=False it is ordered by
\* ascending block and each block keeps exactly its own trials, and every
\* trial's index is its position in the list.
C34_RandomizeTrials ==
    [][ExpOp("randomizeTrials") =>
         IF exp.state = STATE_RUNNING
         THEN exp'.err = "ValueError" /\ Core(exp') = Core(exp)
         ELSE /\ exp'.err = ""
              /\ Permuted(exp.trials, exp'.trials)
              /\ ~exp'.rep =>
                    /\ \A i, j \in 1..Len(exp'.trials) :
                          i < j => exp'.trials[i].block <= exp'.trials[j].block
                    /\ \A i \in 1..Len(exp.trials) :
                          Permuted(OfBlock(exp.trials, exp.trials[i].block),
                                   OfBlock(exp'.trials, exp.trials[i].block))
              /\ \A i \in 1..Len(exp'.trials) : exp'.trials[i].index = i - 1]_vars

\* three trials of two blocks were shuffled within their blocks, and the
\* trial that was first is no longer first
C34_Witness ==
    /\ exp.op = "randomizeTrials" /\ exp.err = "" /\ ~exp.rep
    /\ Len(exp.trials) = 3
    /\ exp.trials[1].block = 0 /\ exp.trials[3].block = 1
    /\ exp.trials[1].params.a = 2
    /\ \A i \in 1..3 : exp.trials[i].index = i - 1

(* --------------------------- C35 --------------------------------------- *)
\* the current trial index names a trial of the list, and that trial is
\* the only one in running state
CurrentIsRunning(e) ==
    /\ PyIndex(e.trials, e.cur_trial).err = ""
    /\ InProgress(e) = { Pos(e, e.cur_trial) }

\* C35: under any sequence of addTrials, clearTrials, randomizeTrials,
\* startTrial, startNextTrial and endCurrentTrial, whenever a trial is in
\* progress the current trial index refers to an existing trial, that trial
\* is the one and only trial in running state, and endCurrentTrial ends
\* exactly that trial.
C35_CurrentTrialIsTheRunningOne ==
    /\ [](exp.trial_running => CurrentIsRunning(exp))
    /\ [][ExpOp("endCurrentTrial") /\ exp.trial_running =>
            /\ exp'.err = "" /\ ~exp'.trial_running
            /\ InProgress(exp') = {}
            /\ Len(exp'.trials) = Len(exp.trials)
            /\ \A i \in 1..Len(exp.trials) :
                  exp'.trials[i] = IF i \in InProgress(exp)
                                   THEN [exp.trials[i] EXCEPT !.state = STATE_DONE]
                                   ELSE exp.trials[i]]_vars

\* with a fixed trial list (startTrial, startNextTrial, endCurrentTrial
\* only) the current trial is the running one
C35_FixedList == exp.trial_running => CurrentIsRunning(exp)

(* --------------------------- C36 --------------------------------------- *)
\* Experiment.running (lines 447-450)
ExpRunning(e) == e.state = STATE_RUNNING

\* C36: whenever a trial is in progress, also one restarted with
\* repeat=True after the last trial has ended, Experiment.running is True
\* and Experiment.done is False.
C36_RunningWhileTrial == exp.trial_running => ExpRunning(exp) /\ ~ExpDone(exp)

\* until the last trial of the list has ended once, running is True and
\* done is False while a trial is in progress
C36_UntilLastTrialEnded ==
    exp.trial_running /\ ~(\E i \in 1..Len(exp.log) : exp.log[i] = Len(exp.trials)
                                                       /\ (i < Len(exp.log)))
        => ExpRunning(exp) /\ ~ExpDone(exp)

(* --------------------------- C37 --------------------------------------- *)
\* the tracker, its type and the flag
TrackerSet == << tracker.tracker, tracker.type, tracker_has_eye_flag >>

\* a call of addEyeTracker with a tracker set and replace=False
Refused == tracker'.n = tracker.n + 1 /\ tracker.tracker # "None" /\ ~tracker'.rep

\* C37: addEyeTracker with a tracker already set and replace=False raises
\* RuntimeError and leaves the tracker, its type and the monocular flag
\* unchanged; after any sequence of addEyeTracker calls the flag is True
\* if and only if the tracker now set is of a type that supplies monocular
\* data.
C37_FlagFollowsTracker ==
    /\ [][Refused => tracker'.err = "RuntimeError" /\ TrackerSet' = TrackerSet]_vars
    /\ [](tracker_has_eye_flag <=> tracker.type \in MonocularTypes)

\* a refused call changes nothing
C37_RefusedUnchanged ==
    [][Refused => tracker'.err = "RuntimeError" /\ TrackerSet' = TrackerSet]_vars

\* a tracker with monocular data always has the flag set
C37_MonocularHasFlag == tracker.type \in MonocularTypes => tracker_has_eye_flag

(* --------------------------- C38 --------------------------------------- *)
\* a frame of the waiting task has passed
DwellStep == dwell'.n = dwell.n + 1

\* C38: waitGazeDwell returns an object only after the gaze has rested on
\* it on every consecutive frame for at least the dwell time immediately
\* before returning; any frame on which the gaze is elsewhere or on nothing
\* resets that object's accumulated dwell to zero.
C38_UnbrokenDwell ==
    /\ [](dwell.pc = "returned" => dwell.rested[dwell.ret] >= dwell.dwell)
    /\ [][DwellStep => \A id \in Objects : dwell'.gaze # id => dwell'.d[id] = 0]_vars

\* the object returned has been looked at for the dwell time in all, with
\* no frame on another node in between; a frame on another node resets the
\* accumulated dwell
C38_NoOtherNodeBetween ==
    /\ [](dwell.pc = "returned" => dwell.d[dwell.ret] >= dwell.dwell
                                    /\ dwell.gaze = dwell.ret)
    /\ [][DwellStep => \A id \in Objects :
                          dwell'.gaze \notin { id, Nothing } => dwell'.d[id] = 0]_vars

(* --------------------------- C39 --------------------------------------- *)
\* run r ends in this step: it completes or an exception leaves it
RunEnds(r) == task[r].pc \notin { "done", "failed" } /\ task'[r].pc \in { "done", "failed" }

\* the scene and the head light run r found: those of this state when the
\* run starts and ends in one step, those it saved otherwise
PriorScene(r) == IF task[r].pc = "none" THEN display.scene ELSE display.prev_scene[r]
PriorHeadlight(r) ==
    IF task[r].pc = "none" THEN display.headlight ELSE display.prev_headlight_state[r]

Restored(r) ==
    /\ display'.scene = PriorScene(r)
    /\ display'.headlight = PriorHeadlight(r)
    /\ ~task'[r].enabled
    /\ r \notin display'.registered

\* C39: whenever a validation run ends, completed or aborted by an error,
\* the main window shows the scene it showed before the run, the head light
\* is as it was before the run, and the validation sample callback is
\* disabled and removed.
C39_DisplayRestored == [][\A r \in Tasks : RunEnds(r) => Restored(r)]_vars

\* a run that completes, or that fails in its setup, leaves the display as
\* it found it; a run aborted later leaves its callback disabled
C39_RestoredUnlessAborted ==
    [][\A r \in Tasks : RunEnds(r) =>
           /\ ~task'[r].enabled
           /\ task'[r].pc = "done" \/ task[r].pc = "none" => Restored(r)]_vars

\* a run has completed that found the head light off and another scene
C39_Witness ==
    \E r \in Tasks : /\ task[r].pc = "done"
                      /\ display.prev_scene[r] = OtherScene /\ display.scene = OtherScene
                      /\ ~display.prev_headlight_state[r] /\ ~display.headlight
                      /\ display.registered = {}

(* --------------------------- C40 --------------------------------------- *)
\* C40: for a SampleReplay with N >= 1 samples, under any sequence of
\* startReplay, stopReplay, resetReplay and frames: the frame index stays
\* within 0..N, replaying and finished are never both True, a replay
\* started from the beginning and only paused and resumed since has
\* replayed every sample up to the frame index exactly once, in order, and
\* the frame that replays the last sample leaves replaying False, finished
\* True and the frame callback disabled; no call raises.
C40_ReplayInOrder ==
    /\ [](/\ replay.frame \in 0..replay.samples
           /\ ~(replay.replaying /\ replay.finished)
           /\ replay.err = ""
           /\ replay.pure => replay.played = [i \in 1..replay.frame |-> i - 1])
    /\ [][replay'.op = "frame" /\ replay'.n = replay.n + 1
             /\ replay.frame + 1 = replay.samples
          => ~replay'.replaying /\ replay'.finished /\ replay'.player = "disabled"
             /\ replay'.frame = replay.samples]_vars

\* a replay of three samples started from the beginning, paused after the
\* first sample, resumed, and finished
C40_Witness ==
    /\ replay.samples = 3 /\ replay.pure /\ replay.finished /\ ~replay.replaying
    /\ replay.played = << 0, 1, 2 >> /\ replay.player = "disabled"
    /\ replay.n = 6 /\ replay.op = "frame"
====
